---- MODULE Spec2Model ----
(***************************************************************************)
(* Model of the disjoint range set and its allocator                       *)
(* (src/src/mm/rangeset.rs).  The fixed array of 256 entries and the u64   *)
(* address space are scaled down to Capacity entries and the addresses     *)
(* 0..U64Max; every arithmetic operation keeps its checked, saturating or  *)
(* wrapping behaviour at U64Max.  The array is modelled with all of its    *)
(* slots, also those at and beyond in_use, because the code reads them.    *)
(***************************************************************************)
EXTENDS Integers, Sequences, FiniteSets, TLC

\* Width of an address in bits (u64, 64 bits, scaled down)
U64Bits == 3

\* Largest address: u64::MAX of the scaled width
U64Max == 2 ^ U64Bits - 1

\* Number of slots of RangeSet::ranges (256 in the source, scaled down)
Capacity == 2

\* Largest size and alignment passed to allocate / allocate_prefer
MaxSize == 3
MaxAlign == 4

\* Bound of the model: the largest length of a cursor
MaxLen == 4

\* Bound of the model: the most records in the payload of a MADT
MaxRecords == 3

\* The largest register index of a device access
MaxIdx == 1

\* The most descriptors in the firmware's memory map, and the most pages a
\* descriptor has
MaxDescriptors == 3
MaxPages == 4

Addr == 0..U64Max

Range(s, e) == [start |-> s, end |-> e]

\* The ranges passed to insert and remove: every well-formed range, and the
\* ill-formed ones with start = end + 1
InputRange == {r \in {Range(s, e) : s \in Addr, e \in Addr} : r.start <= r.end + 1}

Min2(a, b) == IF a < b THEN a ELSE b
Max2(a, b) == IF a > b THEN a ELSE b

saturating_add(x, y) == IF x + y > U64Max THEN U64Max ELSE x + y
saturating_sub(x, y) == IF x < y THEN 0 ELSE x - y
wrapping_add(x, y) == (x + y) % (U64Max + 1)
wrapping_sub(x, y) == (x - y) % (U64Max + 1)

\* An Option value: NoneV or Some(v)
NoneV == [some |-> FALSE]
Some(v) == [some |-> TRUE, v |-> v]

\* A RangeSet value: the whole array and the in-use count
RangeSet(r, n) == [ranges |-> r, in_use |-> n]

new == RangeSet([i \in 1..Capacity |-> Range(0, 0)], 0)

\* entries(): the first in_use slots
entries(rs) == SubSeq(rs.ranges, 1, rs.in_use)

\* overlaps(a, b): both arguments normalised, then the intersection
Normalise(a) == IF a.start > a.end THEN Range(a.end, a.start) ELSE a

overlaps(a, b) ==
    LET na == Normalise(a)
        nb == Normalise(b)
    IN  IF na.start <= nb.end /\ nb.start <= na.end
        THEN Some(Range(Max2(na.start, nb.start), Min2(na.end, nb.end)))
        ELSE NoneV

\* contains(a, b): a lies inside b
contains(a, b) ==
    LET na == Normalise(a)
        nb == Normalise(b)
    IN  na.start >= nb.start /\ na.end <= nb.end

\* delete(idx): swap with the last in-use entry, drop the count
\* (idx is 1-based here; the callers only pass idx <= in_use)
delete(rs, idx) ==
    LET last == rs.in_use
        swapped == [rs.ranges EXCEPT ![idx] = rs.ranges[last],
                                     ![last] = rs.ranges[idx]]
    IN  RangeSet(swapped, rs.in_use - 1)

\* try_merges with the overlap test on the ranges as they are, without the
\* saturating add of one: touching ranges are not merged
RECURSIVE try_merges_overlap_only(_, _)
try_merges_overlap_only(rs, range) ==
    LET hits == {ii \in 1..rs.in_use : overlaps(range, rs.ranges[ii]).some}
    IN  IF hits = {}
        THEN [rs |-> rs, range |-> range]
        ELSE LET ii == CHOOSE i \in hits : \A j \in hits : i <= j
                 ent == rs.ranges[ii]
             IN  try_merges_overlap_only(delete(rs, ii),
                                         Range(Min2(range.start, ent.start),
                                               Max2(range.end, ent.end)))

\* The 'try_merges loop of insert: merge with the first entry that overlaps
\* or touches, delete it, start over
RECURSIVE try_merges(_, _)
try_merges(rs, range) ==
    LET hits == {ii \in 1..rs.in_use :
                    overlaps(Range(range.start, saturating_add(range.end, 1)),
                             Range(rs.ranges[ii].start,
                                   saturating_add(rs.ranges[ii].end, 1))).some}
    IN  IF hits = {}
        THEN [rs |-> rs, range |-> range]
        ELSE LET ii == CHOOSE i \in hits : \A j \in hits : i <= j
                 ent == rs.ranges[ii]
             IN  try_merges(delete(rs, ii),
                            Range(Min2(range.start, ent.start),
                                  Max2(range.end, ent.end)))

\* insert(range): result and the RangeSet afterwards
insert(rs, range) ==
    IF range.end < range.start
    THEN [rs |-> rs, res |-> "InvalidIndex"]
    ELSE LET m == try_merges(rs, range)
         IN  IF m.rs.in_use < Capacity
             THEN [rs |-> RangeSet([m.rs.ranges EXCEPT ![m.rs.in_use + 1] = m.range],
                                   m.rs.in_use + 1),
                   res |-> "Ok"]
             ELSE [rs |-> m.rs, res |-> "OutOfEntries"]

\* The 'try_subtractions loop of remove, from entry ii of the current pass
RECURSIVE try_subtractions(_, _, _)
try_subtractions(rs, range, ii) ==
    IF ii > rs.in_use
    THEN [rs |-> rs, res |-> "Ok"]
    ELSE LET ent == rs.ranges[ii]
         IN  IF ~overlaps(range, ent).some
             THEN try_subtractions(rs, range, ii + 1)
             ELSE IF contains(ent, range)
             THEN try_subtractions(delete(rs, ii), range, 1)
             ELSE IF range.start <= ent.start
             THEN try_subtractions(
                     RangeSet([rs.ranges EXCEPT ![ii].start = saturating_add(range.end, 1)],
                              rs.in_use),
                     range, ii + 1)
             ELSE IF range.end >= ent.end
             THEN try_subtractions(
                     RangeSet([rs.ranges EXCEPT ![ii].end = saturating_sub(range.start, 1)],
                              rs.in_use),
                     range, ii + 1)
             ELSE \* range strictly inside the entry: split
                  LET trimmed == [rs.ranges EXCEPT ![ii].start = saturating_add(range.end, 1)]
                  IN  IF rs.in_use < Capacity
                      THEN \* the inner binding `ent` is the slot at in_use, so the
                           \* start of the new entry is read from that slot
                           LET slot == trimmed[rs.in_use + 1]
                               tail == Range(slot.start, saturating_sub(range.start, 1))
                           IN  try_subtractions(
                                  RangeSet([trimmed EXCEPT ![rs.in_use + 1] = tail],
                                           rs.in_use + 1),
                                  range, 1)
                      ELSE [rs |-> RangeSet(trimmed, rs.in_use), res |-> "OutOfEntries"]

\* remove(range): result and the RangeSet afterwards
remove(rs, range) ==
    IF range.end < range.start
    THEN [rs |-> rs, res |-> "InvalidIndex"]
    ELSE try_subtractions(rs, range, 1)

\* u64::checked_add
checked_add(x, y) == IF x + y > U64Max THEN NoneV ELSE Some(x + y)

\* sum(): the try_fold over entries().  `end - start` and `acc + ...` are
\* unchecked: on overflow the build either panics (overflow checks on) or
\* wraps (overflow checks off); only the `+ 1` is a checked_add
RECURSIVE sum_fold(_, _, _, _)
sum_fold(rs, ii, acc, overflow_checks) ==
    IF ii > rs.in_use
    THEN [res |-> "Some", val |-> acc]
    ELSE LET x == rs.ranges[ii]
             len == checked_add(wrapping_sub(x.end, x.start), 1)
         IN  IF x.end < x.start /\ overflow_checks
             THEN [res |-> "panic", val |-> 0]
             ELSE IF ~len.some
             THEN [res |-> "None", val |-> 0]
             ELSE IF acc + len.v > U64Max /\ overflow_checks
             THEN [res |-> "panic", val |-> 0]
             ELSE sum_fold(rs, ii + 1, wrapping_add(acc, len.v), overflow_checks)

sum(rs, overflow_checks) == sum_fold(rs, 1, 0, overflow_checks)

\* u64::count_ones
RECURSIVE count_ones(_)
count_ones(x) == IF x = 0 THEN 0 ELSE (x % 2) + count_ones(x \div 2)

\* x & alignmask and x & !alignmask, alignmask = align - 1, align a power of two
and_mask(x, align) == x % align
and_not_mask(x, align) == x - (x % align)

\* A candidate allocation (base, end, ptr)
Allocation(b, e, p) == [base |-> b, end |-> e, ptr |-> p]

\* region_search asking for one byte more than the request behind the aligned
\* start (size instead of size - 1)
RECURSIVE region_search_off_by_one(_, _, _, _, _)
region_search_off_by_one(ent, regions, size, align, jj) ==
    IF jj > regions.in_use
    THEN NoneV
    ELSE LET overlap == overlaps(ent, regions.ranges[jj])
         IN  IF ~overlap.some
             THEN region_search_off_by_one(ent, regions, size, align, jj + 1)
             ELSE LET align_overlap ==
                          and_not_mask(wrapping_add(overlap.v.start, align - 1), align)
                  IN  IF /\ align_overlap >= overlap.v.start
                         /\ align_overlap <= overlap.v.end
                         /\ overlap.v.end - align_overlap >= size
                      THEN Some(Allocation(align_overlap,
                                           align_overlap + (size - 1),
                                           align_overlap))
                      ELSE region_search_off_by_one(ent, regions, size, align, jj + 1)

\* The loop over regions.entries() for one free entry: the first region whose
\* overlap with the entry holds the aligned request
RECURSIVE region_search(_, _, _, _, _)
region_search(ent, regions, size, align, jj) ==
    IF jj > regions.in_use
    THEN NoneV
    ELSE LET overlap == overlaps(ent, regions.ranges[jj])
         IN  IF ~overlap.some
             THEN region_search(ent, regions, size, align, jj + 1)
             ELSE LET align_overlap ==
                          and_not_mask(wrapping_add(overlap.v.start, align - 1), align)
                  IN  IF /\ align_overlap >= overlap.v.start
                         /\ align_overlap <= overlap.v.end
                         /\ overlap.v.end - align_overlap >= size - 1
                      THEN Some(Allocation(align_overlap,
                                           align_overlap + (size - 1),
                                           align_overlap))
                      ELSE region_search(ent, regions, size, align, jj + 1)

\* allocation_search that keeps the first free range that holds the request
\* (first fit: a later, smaller fit never replaces it)
RECURSIVE allocation_search_first_fit(_, _, _, _, _, _)
allocation_search_first_fit(rs, size, align, regions, ii, allocation) ==
    IF ii > rs.in_use
    THEN allocation
    ELSE LET ent == rs.ranges[ii]
             align_fix == and_mask(align - and_mask(ent.start, align), align)
             base == ent.start
             sized == checked_add(base, size - 1)
             end == IF sized.some THEN checked_add(sized.v, align_fix) ELSE NoneV
         IN  IF ~end.some
             THEN allocation_search_first_fit(rs, size, align, regions, ii + 1, allocation)
             ELSE IF end.v > ent.end
             THEN allocation_search_first_fit(rs, size, align, regions, ii + 1, allocation)
             ELSE LET preferred == IF regions.some
                                   THEN region_search(ent, regions.v, size, align, 1)
                                   ELSE NoneV
                  IN  IF preferred.some
                      THEN preferred
                      ELSE IF ~allocation.some
                      THEN allocation_search_first_fit(rs, size, align, regions, ii + 1,
                                             Some(Allocation(base, end.v, base + align_fix)))
                      ELSE allocation_search_first_fit(rs, size, align, regions, ii + 1,
                                                       allocation)

\* The 'allocation_search loop of allocate_prefer from entry ii, with the
\* best allocation found so far
RECURSIVE allocation_search(_, _, _, _, _, _)
allocation_search(rs, size, align, regions, ii, allocation) ==
    IF ii > rs.in_use
    THEN allocation
    ELSE LET ent == rs.ranges[ii]
             align_fix == and_mask(align - and_mask(ent.start, align), align)
             base == ent.start
             sized == checked_add(base, size - 1)
             end == IF sized.some THEN checked_add(sized.v, align_fix) ELSE NoneV
         IN  IF ~end.some
             THEN allocation_search(rs, size, align, regions, ii + 1, allocation)
             ELSE IF end.v > ent.end
             THEN allocation_search(rs, size, align, regions, ii + 1, allocation)
             ELSE LET preferred == IF regions.some
                                   THEN region_search(ent, regions.v, size, align, 1)
                                   ELSE NoneV
                      smaller == /\ allocation.some
                                 /\ end.v - base < allocation.v.end - allocation.v.base
                  IN  IF preferred.some
                      THEN preferred
                      ELSE IF ~allocation.some \/ smaller
                      THEN allocation_search(rs, size, align, regions, ii + 1,
                                             Some(Allocation(base, end.v, base + align_fix)))
                      ELSE allocation_search(rs, size, align, regions, ii + 1, allocation)

\* allocate_prefer(size, align, regions): result, pointer, the allocation that
\* was chosen and the RangeSet afterwards
allocate_prefer(rs, size, align, regions) ==
    IF size = 0
    THEN [rs |-> rs, res |-> "ZeroSizeAllocation", val |-> 0, allocation |-> NoneV]
    ELSE IF count_ones(align) # 1
    THEN [rs |-> rs, res |-> "InvalidAlignment", val |-> 0, allocation |-> NoneV]
    ELSE LET allocation == allocation_search(rs, size, align, regions, 1, NoneV)
         IN  IF allocation.some
             THEN LET r == remove(rs, Range(allocation.v.base, allocation.v.end))
                  IN  IF r.res = "Ok"
                      THEN [rs |-> r.rs, res |-> "Ok", val |-> allocation.v.ptr,
                            allocation |-> allocation]
                      ELSE [rs |-> r.rs, res |-> r.res, val |-> 0,
                            allocation |-> allocation]
             ELSE [rs |-> rs, res |-> "OutOfMemory", val |-> 0, allocation |-> NoneV]

\* allocate(size, align)
allocate(rs, size, align) == allocate_prefer(rs, size, align, NoneV)

\* The ranges a caller builds its preferred regions from, and the preferred
\* RangeSets: built with insert, one or two entries in either order
PreferRange == {Range(1, 1), Range(3, 3), Range(5, 6)}

Preferred == {insert(insert(new, a).rs, b).rs : a \in PreferRange, b \in PreferRange}

(***************************************************************************)
(* Physical memory and the cursor over it (src/bootloader/src/mm/physmem.rs *)
(* and src/src/mm/physmem.rs, which are the same code).  Physical memory   *)
(* is a sequence of bytes: the byte at address a is m[a + 1], and memory   *)
(* past the end of the sequence reads as zero.                             *)
(***************************************************************************)

\* PhysAddr::read_unaligned::<u8>
read_u8(m, a) == IF a + 1 \in DOMAIN m THEN m[a + 1] ELSE 0

\* PhysAddr::read_unaligned::<T>, size = size_of::<T>(): the bytes of the value
read_unaligned(m, a, size) == [i \in 1..size |-> read_u8(m, a + i - 1)]

PhysSlice(addr, len) == [addr |-> addr, len |-> len]

\* PhysSlice::discard, letting one byte too many through
discard_one_too_many(s, bytes) ==
    IF s.len + 1 >= bytes
    THEN [slice |-> PhysSlice(s.addr + bytes, s.len - bytes), res |-> "Ok"]
    ELSE [slice |-> s, res |-> "Err"]

\* PhysSlice::discard
discard(s, bytes) ==
    IF s.len >= bytes
    THEN [slice |-> PhysSlice(s.addr + bytes, s.len - bytes), res |-> "Ok"]
    ELSE [slice |-> s, res |-> "Err"]

\* PhysSlice::consume::<T>, size = size_of::<T>(); read is the set of
\* addresses the call has read
consume(m, s, size) ==
    IF s.len < size
    THEN [slice |-> s, res |-> "Err", data |-> <<>>, read |-> {}]
    ELSE [slice |-> PhysSlice(s.addr + size, s.len - size), res |-> "Ok",
          data |-> read_unaligned(m, s.addr, size),
          read |-> s.addr..(s.addr + size - 1)]

(***************************************************************************)
(* The ACPI tables in physical memory (src/bootloader/src/acpi.rs and      *)
(* src/src/acpi.rs).  Structures keep their binary layout and their sizes; *)
(* an integer read from memory keeps its low 24 bits, and every value of   *)
(* 2^24 or more is kept apart from the smaller ones by the bit 2^24: no    *)
(* image of the model is that long or lies that far up in memory.          *)
(***************************************************************************)

\* size_of::<Rsdp>(), size_of::<RsdpExtended>(), size_of::<Table>(),
\* size_of::<u64>(), size_of::<LocalApic>(), size_of::<LocalX2Apic>()
size_of_Rsdp == 20
size_of_RsdpExtended == 36
size_of_Table == 36
size_of_u64 == 8
size_of_LocalApic == 6
size_of_LocalX2Apic == 14

\* MAX_CORES, 512 in the source, scaled down
MAX_CORES == 2

Beyond == 2 ^ 24

ByteAt(bs, i) == IF i <= Len(bs) THEN bs[i] ELSE 0

\* u8, u16, u32 and u64 from their little-endian bytes
from_le_bytes(bs) ==
    ByteAt(bs, 1) + 256 * ByteAt(bs, 2) + 65536 * ByteAt(bs, 3)
        + (IF \E i \in 4..Len(bs) : bs[i] # 0 THEN Beyond ELSE 0)

\* The field of `size` bytes at `offset` of the structure at `addr`
field(m, addr, offset, size) == read_unaligned(m, addr + offset, size)

\* b"RSD PTR ", b"XSDT", b"APIC", b"SRAT", b"SPCR"
RSD_PTR == <<82, 83, 68, 32, 80, 84, 82, 32>>
XSDT == <<88, 83, 68, 84>>
APIC == <<65, 80, 73, 67>>
SRAT == <<83, 82, 65, 84>>
SPCR == <<83, 80, 67, 82>>

\* TableType, and TableType::from([u8; 4])
TableType(name) == [name |-> name, sig |-> <<>>]

TableType_from(val) ==
    CASE val = XSDT -> TableType("Xsdt")
      [] val = APIC -> TableType("Madt")
      [] val = SRAT -> TableType("Srat")
      [] val = SPCR -> TableType("Spcr")
      [] OTHER -> [name |-> "Unknown", sig |-> val]

\* Result<T>: Ok(v), and Err(Error) with the TableType the error carries
NoType == TableType("-")
Ok(v) == [res |-> "Ok", v |-> v, err |-> "-", typ |-> NoType]
Err(e, typ) == [res |-> "Err", v |-> <<>>, err |-> e, typ |-> typ]

\* The fold of checksum: the wrapping sum of the bytes at addr + offset for
\* offset in from..(to - 1).  wrapping_add is associative, so the sum is
\* taken by halves
RECURSIVE checksum_fold(_, _, _, _)
checksum_fold(m, addr, from, to) ==
    IF from >= to THEN 0
    ELSE IF from + 1 = to THEN read_u8(m, addr + from)
    ELSE LET mid == (from + to) \div 2
         IN  (checksum_fold(m, addr, from, mid)
                + checksum_fold(m, addr, mid, to)) % 256

\* checksum, summing all bytes but the last
checksum_short(m, addr, size, typ) ==
    LET mapped == Max2(0, Min2(size - 1, Len(m) - addr))
    IN  IF checksum_fold(m, addr, 0, mapped) = 0
        THEN Ok(<<>>)
        ELSE Err("ChecksumMismatch", typ)

\* checksum.  The bytes past the end of the image are zero and add nothing,
\* so the fold stops there; addr + offset stays far below 2^64
checksum(m, addr, size, typ) ==
    LET mapped == Max2(0, Min2(size, Len(m) - addr))
    IN  IF checksum_fold(m, addr, 0, mapped) = 0
        THEN Ok(<<>>)
        ELSE Err("ChecksumMismatch", typ)

\* Table::from_addr: the table type, the payload address and its size
Table_from_addr(m, addr) ==
    LET typ == TableType_from(field(m, addr, 0, 4))
        length == from_le_bytes(field(m, addr, 4, 4))
        chk == checksum(m, addr, length, typ)
    IN  IF chk.res # "Ok" THEN chk
        ELSE IF length < size_of_Table THEN Err("LengthMismatch", typ)
        ELSE Ok([typ |-> typ, data |-> addr + size_of_Table,
                 len |-> length - size_of_Table])

\* LocalApic and LocalX2Apic from their packed bytes, and their defaults
\* struct LocalApic with the first two fields the other way round
LocalApic_swapped(bs) ==
    [acpi_processor_uid |-> bs[2], apic_id |-> bs[1],
     flags |-> from_le_bytes(SubSeq(bs, 3, 6))]

LocalApic(bs) ==
    [acpi_processor_uid |-> bs[1], apic_id |-> bs[2],
     flags |-> from_le_bytes(SubSeq(bs, 3, 6))]

LocalApic_default == [acpi_processor_uid |-> 0, apic_id |-> 0, flags |-> 0]

LocalX2Apic(bs) ==
    [reserved |-> from_le_bytes(SubSeq(bs, 1, 2)),
     x2apic_id |-> from_le_bytes(SubSeq(bs, 3, 6)),
     flags |-> from_le_bytes(SubSeq(bs, 7, 10)),
     acpi_processor_uid |-> from_le_bytes(SubSeq(bs, 11, 14))]

\* struct Madt, and the empty Madt that Madt::from_addr starts from
Madt(apics, num_apics, x2apics, num_x2apics) ==
    [apics |-> apics, num_apics |-> num_apics,
     x2apics |-> x2apics, num_x2apics |-> num_x2apics]

Madt_empty ==
    Madt([i \in 1..MAX_CORES |-> LocalApic_default], 0,
         [i \in 1..MAX_CORES |-> LocalApic_default], 0)

\* const E of Spcr::from_addr, pasted into Madt::from_addr
E_Madt_of_Spcr == Err("LengthMismatch", TableType("Spcr"))

\* const E in Madt::from_addr
E_Madt == Err("LengthMismatch", TableType("Madt"))

\* The type and length bytes of a record read, the cursor left where it was
sub_header_peeked(m, s) ==
    [typ |-> [consume(m, s, 1) EXCEPT !.slice = s],
     len |-> [consume(m, consume(m, s, 1).slice, 1) EXCEPT !.slice = s]]

\* `let typ = slice.consume::<u8>()` and `let len = slice.consume::<u8>()`
\* at the head of a pass
sub_header(m, s) ==
    [typ |-> consume(m, s, 1), len |-> consume(m, consume(m, s, 1).slice, 1)]

\* One pass of the `while slice.len() > 0` loop of Madt::from_addr: the
\* result so far and the cursor after it.  keeps is TRUE for the boot
\* loader, whose Madt stores the records, and FALSE for the kernel, whose
\* Madt is a unit struct
interrupt_controller(m, s, ret, keeps) ==
    LET typ == sub_header(m, s).typ
        len == sub_header(m, s).len
    IN  IF typ.res # "Ok" THEN [res |-> E_Madt, slice |-> typ.slice]
        ELSE IF len.res # "Ok" THEN [res |-> E_Madt, slice |-> len.slice]
        ELSE IF len.data[1] < 2 THEN [res |-> E_Madt, slice |-> len.slice]
        ELSE
        LET n == len.data[1] - 2
        IN  CASE typ.data[1] = 0 ->
                    LET apic == consume(m, len.slice, size_of_LocalApic)
                    IN  IF n # size_of_LocalApic
                        THEN [res |-> E_Madt, slice |-> len.slice]
                        ELSE IF apic.res # "Ok"
                        THEN [res |-> E_Madt, slice |-> apic.slice]
                        ELSE IF ~keeps
                        THEN [res |-> Ok(ret), slice |-> apic.slice]
                        ELSE IF ret.num_apics >= MAX_CORES
                        THEN [res |-> Err("TooManyCpus", NoType),
                              slice |-> apic.slice]
                        ELSE [res |-> Ok([ret EXCEPT
                                        !.apics[ret.num_apics + 1] =
                                            LocalApic(apic.data),
                                        !.num_apics = @ + 1]),
                              slice |-> apic.slice]
              [] typ.data[1] = 9 ->
                    LET apic == consume(m, len.slice, size_of_LocalX2Apic)
                    IN  IF n # size_of_LocalX2Apic
                        THEN [res |-> E_Madt, slice |-> len.slice]
                        ELSE IF apic.res # "Ok"
                        THEN [res |-> E_Madt, slice |-> apic.slice]
                        ELSE [res |-> Ok(ret), slice |-> apic.slice]
              [] OTHER ->
                    LET rest == discard(len.slice, n)
                    IN  IF rest.res # "Ok"
                        THEN [res |-> E_Madt, slice |-> rest.slice]
                        ELSE [res |-> Ok(ret), slice |-> rest.slice]

\* The `while slice.len() > 0` loop of Madt::from_addr
RECURSIVE interrupt_controllers(_, _, _, _)
interrupt_controllers(m, s, ret, keeps) ==
    IF ~(s.len > 0) THEN Ok(ret)
    ELSE LET pass == interrupt_controller(m, s, ret, keeps)
         IN  IF pass.res.res # "Ok" THEN pass.res
             ELSE interrupt_controllers(m, pass.slice, pass.res.v, keeps)

\* Madt::from_addr
Madt_from_addr(m, addr, size, keeps) ==
    LET local_apic_addr == consume(m, PhysSlice(addr, size), 4)
        flags == consume(m, local_apic_addr.slice, 4)
    IN  IF local_apic_addr.res # "Ok" \/ flags.res # "Ok" THEN E_Madt
        ELSE interrupt_controllers(m, flags.slice, Madt_empty, keeps)

(***************************************************************************)
(* The Generic Address Structure (src/shared/generic_access_structure and  *)
(* its copy in src/src/acpi.rs) and the serial driver                      *)
(* (src/shared/serial/src/lib.rs).  A u64 value is the sequence of its 8   *)
(* little-endian bytes; addresses and port numbers live in 0..U64Max.  The *)
(* bus is what the accesses reach: a store of bytes for the memory space   *)
(* and one for the I/O ports.                                              *)
(***************************************************************************)

Zeros(n) == [i \in 1..n |-> 0]

\* The 8 little-endian bytes of the u64 v
u64(v) == <<v % 256, (v \div 256) % 256, (v \div 65536) % 256,
            (v \div 16777216) % 256, 0, 0, 0, 0>>

\* `val as u8`, `as u16`, `as u32`, `as u64`: the low `bytes` bytes
truncate(val, bytes) == SubSeq(val, 1, bytes)

\* `as u64` of a narrower value
zero_extend(bs) == bs \o Zeros(8 - Len(bs))

\* AccessSize::from(u8) and the number of bytes of an access
AccessSize_from(val) ==
    CASE val = 0 -> "Undefined"
      [] val = 1 -> "Byte"
      [] val = 2 -> "Word"
      [] val = 3 -> "Dword"
      [] val = 4 -> "Qword"
      [] OTHER -> "Unspecified"

AccessBytes(access_size) ==
    CASE access_size = "Byte" -> 1
      [] access_size = "Word" -> 2
      [] access_size = "Dword" -> 4
      [] access_size = "Qword" -> 8
      [] OTHER -> 0

\* enum Gas
Gas(space, addr, register_width, register_offset, access_size) ==
    [space |-> space, addr |-> addr, register_width |-> register_width,
     register_offset |-> register_offset, access_size |-> access_size]

Gas_Unimplemented == Gas("Unimplemented", 0, 0, 0, "Undefined")

\* impl From<[u8; 12]> for Gas
Gas_from(val) ==
    CASE val[1] = 0 -> Gas("Memory", from_le_bytes(SubSeq(val, 5, 12)),
                           val[2], val[3], AccessSize_from(val[4]))
      [] val[1] = 1 -> Gas("Io", from_le_bytes(SubSeq(val, 5, 12)),
                           val[2], val[3], AccessSize_from(val[4]))
      [] OTHER -> Gas_Unimplemented

\* enum GasType
GasType(space, addr, access_size) ==
    [space |-> space, addr |-> addr, access_size |-> access_size]

checked_mul(x, y) == IF x * y > U64Max THEN NoneV ELSE Some(x * y)

\* Gas::addr, looking at the register offset before the register width
Gas_addr_offset_first(gas, idx) ==
    IF gas.space = "Unimplemented" THEN Err("TypeUnimplemented", NoType)
    ELSE IF gas.register_offset # 0 THEN Err("OffsetNonZero", NoType)
    ELSE IF gas.register_width = 0 THEN Err("WidthZero", NoType)
    ELSE IF gas.register_width % 8 # 0 THEN Err("WidthNotMod8", NoType)
    ELSE
    LET x == checked_mul(idx, gas.register_width \div 8)
        addr == IF x.some THEN checked_add(x.v, gas.addr) ELSE NoneV
    IN  IF ~addr.some THEN Err("AddressOverflow", NoType)
        ELSE Ok(GasType(gas.space, addr.v, gas.access_size))

\* Gas::addr: the two arms are the same code
Gas_addr(gas, idx) ==
    IF gas.space = "Unimplemented" THEN Err("TypeUnimplemented", NoType)
    ELSE IF gas.register_width = 0 THEN Err("WidthZero", NoType)
    ELSE IF gas.register_width % 8 # 0 THEN Err("WidthNotMod8", NoType)
    ELSE IF gas.register_offset # 0 THEN Err("OffsetNonZero", NoType)
    ELSE
    LET x == checked_mul(idx, gas.register_width \div 8)
        addr == IF x.some THEN checked_add(x.v, gas.addr) ELSE NoneV
    IN  IF ~addr.some THEN Err("AddressOverflow", NoType)
        ELSE Ok(GasType(gas.space, addr.v, gas.access_size))

\* The bus, and a store of bytes written at an address
Bus(memory, io) == [memory |-> memory, io |-> io]

write_bytes(m, a, bs) ==
    [i \in 1..Max2(Len(m), a + Len(bs)) |->
        IF a < i /\ i <= a + Len(bs) THEN bs[i - a] ELSE ByteAt(m, i)]

\* The access sizes of memory, taken for an I/O port too
Accessible_alike(space) == {"Byte", "Word", "Dword", "Qword"}

\* The access sizes each space takes: no 64-bit port access
Accessible(space) ==
    IF space = "Io" THEN {"Byte", "Word", "Dword"}
    ELSE {"Byte", "Word", "Dword", "Qword"}

\* GasType::read, reading a whole u64 whatever the access size
GasType_read_whole(bus, gt) ==
    IF gt.access_size \notin Accessible(gt.space)
    THEN Err("InvalidAccessSize", NoType)
    ELSE Ok(zero_extend(read_unaligned(
                IF gt.space = "Io" THEN bus.io ELSE bus.memory,
                gt.addr, 8)))

\* GasType::read: the value read, zero-extended
GasType_read(bus, gt) ==
    IF gt.access_size \notin Accessible(gt.space)
    THEN Err("InvalidAccessSize", NoType)
    ELSE Ok(zero_extend(read_unaligned(
                IF gt.space = "Io" THEN bus.io ELSE bus.memory,
                gt.addr, AccessBytes(gt.access_size))))

\* GasType::write: the bus after the write of the truncated value
GasType_write(bus, gt, val) ==
    IF gt.access_size \notin Accessible(gt.space)
    THEN Err("InvalidAccessSize", NoType)
    ELSE IF gt.space = "Io"
    THEN Ok([bus EXCEPT !.io = write_bytes(@, gt.addr,
                truncate(val, AccessBytes(gt.access_size)))])
    ELSE Ok([bus EXCEPT !.memory = write_bytes(@, gt.addr,
                truncate(val, AccessBytes(gt.access_size)))])

\* Gas::read and Gas::write
Gas_read(bus, gas, idx) ==
    LET gt == Gas_addr(gas, idx)
    IN  IF gt.res # "Ok" THEN gt ELSE GasType_read(bus, gt.v)

Gas_write(bus, gas, idx, val) ==
    LET gt == Gas_addr(gas, idx)
    IN  IF gt.res # "Ok" THEN gt ELSE GasType_write(bus, gt.v, val)

\* impl From<u8> for SerialInterface / Interface: the names of 0..20; the
\* value 7 and every value above 20 is Unknown(val)
InterfaceNames ==
    <<"Serial16550", "Serial16450", "Max311", "ArmPL011", "Msm8x60",
      "Nvidia16550", "TiOmap", "Unknown", "Apm88xxxx", "Msm8974", "Sam5250",
      "IntelUsif", "IMX6", "ArmSbsa32", "ArmSbsa", "ArmDcc", "Bcm2835",
      "Sdm845_18432", "Serial16550Gas", "Sdm845_7362", "IntelLpss">>

SerialInterface_from(val) ==
    IF val + 1 \in DOMAIN InterfaceNames /\ val # 7
    THEN [name |-> InterfaceNames[val + 1], val |-> 0]
    ELSE [name |-> "Unknown", val |-> val]

\* Spcr::from_addr
E_Spcr == Err("LengthMismatch", TableType("Spcr"))

\* Spcr::from_addr without its discard(3)
Spcr_from_addr_unreserved(m, addr, size) ==
    LET typ == consume(m, PhysSlice(addr, size), 1)
        info == consume(m, typ.slice, 12)
    IN  IF typ.res # "Ok" THEN E_Spcr
        ELSE IF info.res # "Ok" THEN E_Spcr
        ELSE Ok([interface_type |-> SerialInterface_from(typ.data[1]),
                 address |-> Gas_from(info.data)])

Spcr_from_addr(m, addr, size) ==
    LET typ == consume(m, PhysSlice(addr, size), 1)
        reserved == discard(typ.slice, 3)
        info == consume(m, reserved.slice, 12)
    IN  IF typ.res # "Ok" THEN E_Spcr
        ELSE IF reserved.res # "Ok" THEN E_Spcr
        ELSE IF info.res # "Ok" THEN E_Spcr
        ELSE Ok([interface_type |-> SerialInterface_from(typ.data[1]),
                 address |-> Gas_from(info.data)])

\* The 16550 workaround, for a Gas of either space
coerce_any_space(interface, device) ==
    IF interface.name = "Serial16550" /\ device.access_size = "Undefined"
    THEN [device EXCEPT !.access_size = "Byte"]
    ELSE device

\* The 16550 workaround of init (src/src/acpi.rs) and of Serial::init: an
\* Undefined access size of an I/O port Gas becomes Byte
coerce(interface, device) ==
    IF /\ interface.name = "Serial16550"
       /\ device.space = "Io"
       /\ device.access_size = "Undefined"
    THEN [device EXCEPT !.access_size = "Byte"]
    ELSE device

\* The divisor of each BaudRate, (high, low)
BaudRates == {"AsIs", "Baud115200", "Baud57600", "Baud19200", "Baud9600"}

divisor(baud_rate) ==
    CASE baud_rate = "AsIs" -> NoneV
      [] baud_rate = "Baud115200" -> Some(<<0, 1>>)
      [] baud_rate = "Baud57600" -> Some(<<0, 2>>)
      [] baud_rate = "Baud19200" -> Some(<<0, 6>>)
      [] baud_rate = "Baud9600" -> Some(<<0, 12>>)

\* The register writes of Serial::init, in order: <<idx, val>>
init_writes(baud_rate) ==
    <<(<<1, 0>>)>>
    \o (IF divisor(baud_rate).some
        THEN <<(<<3, 128>>), (<<0, divisor(baud_rate).v[2]>>),
               (<<1, divisor(baud_rate).v[1]>>)>>
        ELSE <<>>)
    \o <<(<<3, 3>>), (<<4, 3>>)>>

\* The writes ws[i..] through the device, each with `?`
RECURSIVE write_all(_, _, _, _)
write_all(bus, device, ws, i) ==
    IF i > Len(ws) THEN Ok(bus)
    ELSE LET w == Gas_write(bus, device, ws[i][1], u64(ws[i][2]))
         IN  IF w.res # "Ok" THEN w ELSE write_all(w.v, device, ws, i + 1)

\* `while ret.read_byte()?.is_some() {}` with Serial::read_byte
RECURSIVE drain(_, _)
drain(bus, device) ==
    LET status == Gas_read(bus, device, 5)
        byte == Gas_read(bus, device, 0)
    IN  IF status.res # "Ok" THEN status
        ELSE IF status.v[1] % 2 = 0 THEN Ok(bus)
        ELSE IF byte.res # "Ok" THEN byte
        ELSE drain(bus, device)

\* Serial::init on x86_64: Ok with the Serial it stores in SERIAL_DEVICE
Serial_init(bus, interface, device, baud_rate) ==
    IF interface.name # "Serial16550"
    THEN Err("UnsupportedDevice", NoType)
    ELSE
    LET dev == coerce(interface, device)
        written == write_all(bus, dev, init_writes(baud_rate), 1)
        drained == drain(written.v, dev)
    IN  IF written.res # "Ok" THEN Err("GasError", TableType(written.err))
        ELSE IF drained.res # "Ok" THEN Err("GasError", TableType(drained.err))
        ELSE Ok([device |-> dev])

VARIABLES
    ranges,     \* RangeSet::ranges, all Capacity slots
    in_use,     \* RangeSet::in_use
    call,       \* the call that has just run: operation, arguments, result
    before,     \* the RangeSet as it was when that call started
    mem,        \* physical memory, a sequence of bytes
    slice,      \* the PhysSlice cursor: addr, len
    created,    \* the cursor as PhysSlice::new made it
    taken,      \* bytes consumed and discarded by the calls that succeeded
    touched,    \* addresses read through the cursor so far
    firmware,   \* what the firmware built the ACPI tables in mem from
    program,    \* whose acpi::init runs: "bootloader" or "kernel"
    pc,         \* the step acpi::init is at
    xsdt,       \* init's xsdt: the address of the table list's payload
    xsdt_entries,   \* init's entries: the number of table pointers in the list
    idx,        \* init's idx: the list entry at hand
    table_addr, \* init's table_addr: the pointer read from the list entry
    table,      \* init's (typ, data, len) of the table at hand
    ret,        \* init's ret: the Acpi of the boot loader
    SERIAL_DEVICE,  \* the serial driver's global
    result,     \* what init has returned, once it has
    steps,      \* the steps init has run, in order
    gas,        \* the Gas of a device
    bus,        \* the registers of the devices, in memory and on I/O ports
    off,        \* get_memory_map's position in the firmware's memory map
    described,  \* the addresses the usable descriptors read so far describe
    efi,        \* what get_memory_map has returned, once it has
    EFI_SYSTEM_TABLE    \* the pointer to the firmware's system table

rangeset_vars == <<ranges, in_use, call, before>>
cursor_vars == <<slice, created, taken, touched>>
acpi_vars == <<firmware, program, pc, xsdt, xsdt_entries, idx, table_addr,
               table, ret,
               SERIAL_DEVICE, result, steps>>

gas_vars == <<gas, bus>>
efi_vars == <<off, described, efi, EFI_SYSTEM_TABLE>>

boot_vars == <<mem, cursor_vars, acpi_vars, gas_vars, efi_vars>>

vars == <<rangeset_vars, boot_vars>>

self == RangeSet(ranges, in_use)

\* No call is in progress
NoCall == [op |-> "none", res |-> "Ok"]

\* No cursor has been made
NoCursor ==
    /\ slice = PhysSlice(0, 0)
    /\ created = PhysSlice(0, 0)
    /\ taken = 0
    /\ touched = {}

\* struct Acpi
Acpi(madt, spcr) == [madt |-> madt, spcr |-> spcr]

\* init has not returned
Running == [res |-> "Running", v |-> <<>>, err |-> "-", typ |-> NoType]

NoTable == [typ |-> NoType, data |-> 0, len |-> 0]

\* acpi::init is not running and there are no tables
NoAcpi ==
    /\ firmware = <<>>
    /\ program = "-"
    /\ pc = "off"
    /\ xsdt = 0
    /\ xsdt_entries = 0
    /\ idx = 0
    /\ table_addr = 0
    /\ table = NoTable
    /\ ret = Acpi(NoneV, NoneV)
    /\ SERIAL_DEVICE = NoneV
    /\ result = Running
    /\ steps = <<>>

\* No device is accessed
NoGas ==
    /\ gas = Gas_Unimplemented
    /\ bus = Bus(<<>>, <<>>)

\* core::ptr::null_mut()
null_mut == 0

\* get_memory_map is not running and no system table is registered
NoEfi ==
    /\ off = 0
    /\ described = {}
    /\ efi = Running
    /\ EFI_SYSTEM_TABLE = null_mut

\* Everything but the RangeSet is as it is before its own code runs
BootIdle ==
    /\ mem = <<>>
    /\ NoCursor
    /\ NoAcpi
    /\ NoGas
    /\ NoEfi

Init ==
    /\ ranges = new.ranges
    /\ in_use = new.in_use
    /\ call = NoCall
    /\ before = new
    /\ BootIdle

Insert ==
    /\ call = NoCall
    /\ \E range \in InputRange :
        LET r == insert(self, range)
        IN  /\ ranges' = r.rs.ranges
            /\ in_use' = r.rs.in_use
            /\ call' = [op |-> "insert", range |-> range, res |-> r.res]
            /\ before' = self
    /\ UNCHANGED boot_vars

Remove ==
    /\ call = NoCall
    /\ \E range \in InputRange :
        LET r == remove(self, range)
        IN  /\ ranges' = r.rs.ranges
            /\ in_use' = r.rs.in_use
            /\ call' = [op |-> "remove", range |-> range, res |-> r.res]
            /\ before' = self
    /\ UNCHANGED boot_vars

Sum ==
    /\ call = NoCall
    /\ \E overflow_checks \in BOOLEAN :
        LET r == sum(self, overflow_checks)
        IN  /\ call' = [op |-> "sum", res |-> r.res, val |-> r.val]
            /\ before' = self
            /\ UNCHANGED <<ranges, in_use>>
    /\ UNCHANGED boot_vars

Allocate ==
    /\ call = NoCall
    /\ \E size \in 0..MaxSize, align \in 0..MaxAlign :
        LET r == allocate(self, size, align)
        IN  /\ ranges' = r.rs.ranges
            /\ in_use' = r.rs.in_use
            /\ call' = [op |-> "allocate", size |-> size, align |-> align,
                        regions |-> NoneV, res |-> r.res, val |-> r.val,
                        allocation |-> r.allocation]
            /\ before' = self
    /\ UNCHANGED boot_vars

AllocatePrefer ==
    /\ call = NoCall
    /\ \E size \in 1..MaxSize, align \in 1..MaxAlign, regions \in Preferred :
        LET r == allocate_prefer(self, size, align, Some(regions))
        IN  /\ ranges' = r.rs.ranges
            /\ in_use' = r.rs.in_use
            /\ call' = [op |-> "allocate_prefer", size |-> size, align |-> align,
                        regions |-> Some(regions), res |-> r.res, val |-> r.val,
                        allocation |-> r.allocation]
            /\ before' = self
    /\ UNCHANGED boot_vars

\* The call returns to its caller, which goes on with the set as it is now;
\* a panic never returns
Return ==
    /\ call # NoCall
    /\ call.res # "panic"
    /\ call' = NoCall
    /\ before' = self
    /\ UNCHANGED <<ranges, in_use>>
    /\ UNCHANGED boot_vars

Next == Insert \/ Remove \/ Sum \/ Return

Spec == Init /\ [][Next]_vars

\* The allocator as the boot sequence uses it: memory is inserted, then
\* allocated
NextAlloc == Insert \/ Allocate \/ AllocatePrefer \/ Return

SpecAlloc == Init /\ [][NextAlloc]_vars

\* Sequences of successful calls only: every call of the behaviour returns Ok
Succeeded == call'.res = "Ok"

InsertOk == Insert /\ Succeeded
RemoveOk == Remove /\ Succeeded
AllocateOk == Allocate /\ Succeeded
AllocatePreferOk == AllocatePrefer /\ Succeeded

NextOk == InsertOk \/ RemoveOk \/ AllocateOk \/ AllocatePreferOk \/ Return

SpecOk == Init /\ [][NextOk]_vars

(***************************************************************************)
(* The cursor on its own: PhysSlice::new, then any sequence of discard and *)
(* consume calls.  The slice lies in memory, so addr + len is an address.  *)
(***************************************************************************)

\* The RangeSet is not in use
RangeSetIdle ==
    /\ ranges = new.ranges
    /\ in_use = new.in_use
    /\ before = new

\* The memory under the cursors: every byte holds its own address
CursorMem == [i \in 1..(2 * MaxLen) |-> i - 1]

InitCursor ==
    /\ RangeSetIdle
    /\ NoAcpi
    /\ NoGas
    /\ NoEfi
    /\ call = NoCall
    /\ mem = CursorMem
    /\ \E addr \in 0..MaxLen, len \in 0..MaxLen :
        /\ slice = PhysSlice(addr, len)
        /\ created = PhysSlice(addr, len)
    /\ taken = 0
    /\ touched = {}

Discard ==
    /\ \E bytes \in 0..(MaxLen + 1) :
        LET r == discard(slice, bytes)
        IN  /\ slice' = r.slice
            /\ call' = [op |-> "discard", bytes |-> bytes, res |-> r.res,
                        data |-> <<>>]
            /\ taken' = IF r.res = "Ok" THEN taken + bytes ELSE taken
    /\ UNCHANGED <<ranges, in_use, before, mem, created, touched, acpi_vars,
                   gas_vars, efi_vars>>

Consume ==
    /\ \E size \in 0..(MaxLen + 1) :
        LET r == consume(mem, slice, size)
        IN  /\ slice' = r.slice
            /\ call' = [op |-> "consume", bytes |-> size, res |-> r.res,
                        data |-> r.data]
            /\ taken' = IF r.res = "Ok" THEN taken + size ELSE taken
            /\ touched' = touched \cup r.read
    /\ UNCHANGED <<ranges, in_use, before, mem, created, acpi_vars,
                   gas_vars, efi_vars>>

NextCursor == Discard \/ Consume

SpecCursor == InitCursor /\ [][NextCursor]_vars

(***************************************************************************)
(* The images the firmware leaves in memory: the root pointer at           *)
(* rsdp_addr, the table list after it, the tables after the list.  Every   *)
(* checksum is right unless the image says otherwise.                      *)
(***************************************************************************)

\* What the firmware builds a table from: a MADT from the types of its
\* records, an SPCR from its interface type and the space and access size of
\* its Gas, and a table init has no use for
TableDesc(kind, types, iface, space, access) ==
    [kind |-> kind, types |-> types, iface |-> iface, space |-> space,
     access |-> access]

MadtDesc(types) == TableDesc("Madt", types, 0, 0, 0)
SpcrDesc(iface, space, access) == TableDesc("Spcr", <<>>, iface, space, access)
SratDesc == TableDesc("Srat", <<>>, 0, 0, 0)

le32(v) == truncate(u64(v), 4)

RECURSIVE Concat(_)
Concat(ss) == IF Len(ss) = 0 THEN <<>> ELSE Head(ss) \o Concat(Tail(ss))

\* The k-th record of a MADT payload: a LocalApic (type 0, uid k, apic id
\* 16 + k), a LocalX2Apic (type 9, x2apic id 32 + k, uid k), or a record of
\* another type with two bytes of data
RecordBytes(t, k) ==
    CASE t = 0 -> <<0, 8, k, 16 + k, 1, 0, 0, 0>>
      [] t = 9 -> <<9, 16, 0, 0>> \o le32(32 + k) \o le32(1) \o le32(k)
      [] OTHER -> <<t, 4, k, 0>>

Payload(d) ==
    CASE d.kind = "Madt" ->
            le32(4096) \o le32(1)
                \o Concat([k \in 1..Len(d.types) |-> RecordBytes(d.types[k], k)])
      [] d.kind = "Spcr" ->
            <<d.iface, 0, 0, 0>> \o <<d.space, 8, 0, d.access>> \o u64(1)
      [] OTHER -> <<7, 7, 7, 7>>

SigOf(d) ==
    CASE d.kind = "Madt" -> APIC
      [] d.kind = "Spcr" -> SPCR
      [] OTHER -> SRAT

\* The sum of the bytes bs[from..to] mod 256
RECURSIVE SumFrom(_, _, _)
SumFrom(bs, from, to) ==
    IF from > to THEN 0
    ELSE IF from = to THEN bs[from]
    ELSE LET mid == (from + to) \div 2
         IN  (SumFrom(bs, from, mid) + SumFrom(bs, mid + 1, to)) % 256

ByteSum(bs) == SumFrom(bs, 1, Len(bs))

\* bs with the byte at offset `at` set so that all bytes sum to 0 mod 256
WithChecksum(bs, at) ==
    LET rest == ByteSum([bs EXCEPT ![at + 1] = 0])
    IN  [bs EXCEPT ![at + 1] = (256 - rest) % 256]

\* A table: the 36 bytes of its header, then the payload
TableBytes(sig, payload) ==
    WithChecksum(sig \o le32(size_of_Table + Len(payload)) \o <<1, 0>>
                     \o Zeros(26) \o payload, 9)

\* The extended root pointer
RsdpBytes(sig, revision, length, xsdt_addr) ==
    LET root == WithChecksum(sig \o <<0>> \o Zeros(6) \o <<revision>>
                                 \o le32(0), 8)
    IN  WithChecksum(root \o le32(length) \o u64(xsdt_addr) \o Zeros(4), 32)

\* efi::get_acpi_table(): where the firmware says the root pointer is
rsdp_addr == 0

\* The firmware's choices: the root pointer's signature, revision and
\* declared length, the table list's signature and the bytes of slack after
\* its last pointer, the tables, and at most one byte changed afterwards
Fw(root_sig, revision, length, xsdt_sig, slack, tables, mutation) ==
    [root_sig |-> root_sig, revision |-> revision, length |-> length,
     xsdt_sig |-> xsdt_sig, slack |-> slack, tables |-> tables,
     mutation |-> mutation]

Mutation(at, val) == [some |-> TRUE, at |-> at, val |-> val]
NoMutation == [some |-> FALSE, at |-> 0, val |-> 0]

XsdtAddr == rsdp_addr + size_of_RsdpExtended

XsdtLength(fw) == size_of_Table + size_of_u64 * Len(fw.tables) + fw.slack

\* The address of the i-th table
RECURSIVE TableAddr(_, _)
TableAddr(fw, i) ==
    IF i = 1 THEN XsdtAddr + XsdtLength(fw)
    ELSE TableAddr(fw, i - 1)
            + size_of_Table + Len(Payload(fw.tables[i - 1]))

Unchanged(fw) ==
    RsdpBytes(fw.root_sig, fw.revision, fw.length, XsdtAddr)
        \o TableBytes(fw.xsdt_sig,
                Concat([i \in 1..Len(fw.tables) |-> u64(TableAddr(fw, i))])
                    \o Zeros(fw.slack))
        \o Concat([i \in 1..Len(fw.tables) |->
                    TableBytes(SigOf(fw.tables[i]), Payload(fw.tables[i]))])

Build(fw) ==
    IF fw.mutation.some
    THEN [Unchanged(fw) EXCEPT ![fw.mutation.at + 1] = fw.mutation.val]
    ELSE Unchanged(fw)

\* The sequences over S of length up to n
RECURSIVE SeqsUpTo(_, _)
SeqsUpTo(S, n) ==
    IF n = 0 THEN {<<>>}
    ELSE SeqsUpTo(S, n - 1)
            \cup {Append(q, x) : q \in SeqsUpTo(S, n - 1), x \in S}

\* Record types of a well-formed MADT payload: LocalApic, LocalX2Apic, and
\* one more (an I/O APIC)
RecordTypes == {0, 9, 1}

MadtTables == {MadtDesc(ts) : ts \in SeqsUpTo(RecordTypes, MaxRecords)}

SpcrTables ==
    {SpcrDesc(i, sp, a) : i \in {0, 1}, sp \in {0, 1, 2}, a \in {0, 1, 4}}

\* A MADT with one more LocalApic than MAX_CORES
Crowded == MadtDesc([k \in 1..(MAX_CORES + 1) |-> 0])

\* The tables that come in pairs
Few == {MadtDesc(<<0>>), MadtDesc(<<9, 0>>), Crowded, SpcrDesc(0, 1, 0),
        SpcrDesc(0, 0, 0), SratDesc}

TableLists ==
    {<<>>}
        \cup {<<t>> : t \in MadtTables \cup SpcrTables \cup {SratDesc}}
        \cup {<<a, b>> : a \in Few, b \in Few}

\* One LocalApic and a 16550 on an I/O port with no access size given
Usual ==
    Fw(RSD_PTR, 2, size_of_RsdpExtended, XSDT, 0,
       <<MadtDesc(<<0>>), SpcrDesc(0, 1, 0)>>, NoMutation)

UsualImage == Unchanged(Usual)

\* One byte of the usual image set to zero or raised by one
Mutations ==
    {Mutation(at, val) : at \in 0..(Len(UsualImage) - 1), val \in 0..255}

Changes(m) ==
    /\ m.val # UsualImage[m.at + 1]
    /\ m.val \in {0, (UsualImage[m.at + 1] + 1) % 256}

Firmware ==
    {[Usual EXCEPT !.tables = tl] : tl \in TableLists}
        \cup {[Usual EXCEPT !.root_sig = [RSD_PTR EXCEPT ![8] = 33]]}
        \cup {[Usual EXCEPT !.revision = r] : r \in {0, 1, 3}}
        \cup {[Usual EXCEPT !.length = l] : l \in {size_of_Rsdp, 37}}
        \cup {[Usual EXCEPT !.xsdt_sig = sig] : sig \in {SRAT, <<82, 83, 68, 84>>}}
        \cup {[Usual EXCEPT !.slack = 4]}
        \cup {[Usual EXCEPT !.mutation = m] : m \in {x \in Mutations : Changes(x)}}

Programs == {"bootloader", "kernel"}

InitAcpi ==
    /\ RangeSetIdle
    /\ NoCursor
    /\ NoGas
    /\ NoEfi
    /\ call = NoCall
    /\ \E fw \in Firmware :
        /\ firmware = fw
        /\ mem = Build(fw)
    /\ program \in Programs
    /\ pc = "root_checksum"
    /\ xsdt = 0
    /\ xsdt_entries = 0
    /\ idx = 0
    /\ table_addr = 0
    /\ table = NoTable
    /\ ret = Acpi(NoneV, NoneV)
    /\ SERIAL_DEVICE = NoneV
    /\ result = Running
    /\ steps = <<>>

(***************************************************************************)
(* acpi::init, one action per step.  The boot loader (src/bootloader) and  *)
(* the kernel (src/src) run the same steps up to the dispatch on the table *)
(* type.                                                                   *)
(***************************************************************************)

\* What no step of init touches
AcpiFrame ==
    UNCHANGED <<ranges, in_use, before, cursor_vars, mem, firmware, program,
                gas_vars, efi_vars>>

\* The step has run; i is the list entry it is about, -1 if none
Ran(name, i) == steps' = Append(steps, [step |-> name, idx |-> i])

\* init goes on with the step `next`, or returns the error e
Goes(next) == pc' = next /\ result' = result
Fails(e) == pc' = "done" /\ result' = e

\* Rsdp::from_addr: the checksum of the first 20 bytes
RootChecksum ==
    /\ pc = "root_checksum"
    /\ Ran("root checksum", -1)
    /\ LET chk == checksum(mem, rsdp_addr, size_of_Rsdp, TableType("Rsdp"))
       IN  IF chk.res = "Ok" THEN Goes("root_signature") ELSE Fails(chk)
    /\ UNCHANGED <<xsdt, xsdt_entries, idx, table_addr, table, ret,
                   SERIAL_DEVICE, call>>
    /\ AcpiFrame

\* Rsdp::from_addr: the signature
RootSignature ==
    /\ pc = "root_signature"
    /\ Ran("root signature", -1)
    /\ IF field(mem, rsdp_addr, 0, 8) = RSD_PTR
       THEN Goes("revision")
       ELSE Fails(Err("SignatureMismatch", TableType("Rsdp")))
    /\ UNCHANGED <<xsdt, xsdt_entries, idx, table_addr, table, ret,
                   SERIAL_DEVICE, call>>
    /\ AcpiFrame

\* RsdpExtended::from_addr: the revision
Revision ==
    /\ pc = "revision"
    /\ Ran("revision", -1)
    /\ IF field(mem, rsdp_addr, 15, 1)[1] < 2
       THEN Fails(Err("RevisionTooOld", NoType))
       ELSE Goes("extended_checksum")
    /\ UNCHANGED <<xsdt, xsdt_entries, idx, table_addr, table, ret,
                   SERIAL_DEVICE, call>>
    /\ AcpiFrame

\* RsdpExtended::from_addr: the checksum of all 36 bytes
ExtendedChecksum ==
    /\ pc = "extended_checksum"
    /\ Ran("extended checksum", -1)
    /\ LET chk == checksum(mem, rsdp_addr, size_of_RsdpExtended,
                           TableType("Rsdp"))
       IN  IF chk.res = "Ok" THEN Goes("extended_length") ELSE Fails(chk)
    /\ UNCHANGED <<xsdt, xsdt_entries, idx, table_addr, table, ret,
                   SERIAL_DEVICE, call>>
    /\ AcpiFrame

\* RsdpExtended::from_addr: the declared length
ExtendedLength ==
    /\ pc = "extended_length"
    /\ Ran("extended length", -1)
    /\ IF from_le_bytes(field(mem, rsdp_addr, 20, 4)) # size_of_RsdpExtended
       THEN Fails(Err("LengthMismatch", TableType("RsdpExtended")))
       ELSE Goes("xsdt_header")
    /\ UNCHANGED <<xsdt, xsdt_entries, idx, table_addr, table, ret,
                   SERIAL_DEVICE, call>>
    /\ AcpiFrame

\* init: Table::from_addr(PhysAddr(rsdp.xsdt_addr))
XsdtHeader ==
    /\ pc = "xsdt_header"
    /\ Ran("table-list header", -1)
    /\ LET t == Table_from_addr(mem,
                    from_le_bytes(field(mem, rsdp_addr, 24, 8)))
       IN  IF t.res = "Ok"
           THEN Goes("xsdt_signature") /\ table' = t.v
           ELSE Fails(t) /\ table' = table
    /\ UNCHANGED <<xsdt, xsdt_entries, idx, table_addr, ret, SERIAL_DEVICE,
                   call>>
    /\ AcpiFrame

\* init: `if typ != TableType::Xsdt`
XsdtSignature ==
    /\ pc = "xsdt_signature"
    /\ Ran("table-list signature", -1)
    /\ IF table.typ # TableType("Xsdt")
       THEN Fails(Err("SignatureMismatch", TableType("Xsdt")))
       ELSE Goes("xsdt_entries")
    /\ UNCHANGED <<xsdt, xsdt_entries, idx, table_addr, table, ret,
                   SERIAL_DEVICE, call>>
    /\ AcpiFrame

\* init without `if len % size_of::<u64>() != 0`
XsdtEntries_unchecked ==
    /\ pc = "xsdt_entries"
    /\ Ran("table-list length", -1)
    /\ Goes("entry")
    /\ xsdt' = table.data
    /\ xsdt_entries' = table.len \div size_of_u64
    /\ UNCHANGED <<idx, table_addr, table, ret, SERIAL_DEVICE, call>>
    /\ AcpiFrame

\* init: `if len % size_of::<u64>() != 0`, and the number of entries
XsdtEntries ==
    /\ pc = "xsdt_entries"
    /\ Ran("table-list length", -1)
    /\ IF table.len % size_of_u64 # 0
       THEN /\ Fails(Err("XsdtBadEntries", NoType))
            /\ UNCHANGED <<xsdt, xsdt_entries>>
       ELSE /\ Goes("entry")
            /\ xsdt' = table.data
            /\ xsdt_entries' = table.len \div size_of_u64
    /\ UNCHANGED <<idx, table_addr, table, ret, SERIAL_DEVICE, call>>
    /\ AcpiFrame

\* init: the unaligned read of the pointer in list entry idx
EntryRead ==
    /\ pc = "entry"
    /\ idx < xsdt_entries
    /\ Ran("entry read", idx)
    /\ table_addr' =
            from_le_bytes(read_unaligned(mem, idx * size_of_u64 + xsdt,
                                         size_of_u64))
    /\ Goes("table_header")
    /\ UNCHANGED <<xsdt, xsdt_entries, idx, table, ret, SERIAL_DEVICE, call>>
    /\ AcpiFrame

\* init: Table::from_addr(PhysAddr(table_addr))
TableHeader ==
    /\ pc = "table_header"
    /\ Ran("header", idx)
    /\ LET t == Table_from_addr(mem, table_addr)
       IN  IF t.res = "Ok"
           THEN Goes("dispatch") /\ table' = t.v
           ELSE Fails(t) /\ table' = table
    /\ UNCHANGED <<xsdt, xsdt_entries, idx, table_addr, ret, SERIAL_DEVICE,
                   call>>
    /\ AcpiFrame

\* The device registers and ports before the driver has written to them
QuietBus == Bus(<<>>, <<>>)

\* init of the boot loader: `match typ`, the payload parsed into ret
DispatchBootloader ==
    /\ pc = "dispatch"
    /\ program = "bootloader"
    /\ Ran("payload", idx)
    /\ CASE table.typ.name = "Madt" ->
                LET madt == Madt_from_addr(mem, table.data, table.len, TRUE)
                IN  IF madt.res = "Ok"
                    THEN /\ ret' = [ret EXCEPT !.madt = Some(madt.v)]
                         /\ Goes("entry")
                         /\ idx' = idx + 1
                    ELSE Fails(madt) /\ UNCHANGED <<ret, idx>>
         [] table.typ.name = "Spcr" ->
                LET spcr == Spcr_from_addr(mem, table.data, table.len)
                IN  IF spcr.res = "Ok"
                    THEN /\ ret' = [ret EXCEPT !.spcr = Some(spcr.v)]
                         /\ Goes("entry")
                         /\ idx' = idx + 1
                    ELSE Fails(spcr) /\ UNCHANGED <<ret, idx>>
         [] OTHER ->
                /\ Goes("entry")
                /\ idx' = idx + 1
                /\ ret' = ret
    /\ UNCHANGED <<xsdt, xsdt_entries, table_addr, table, SERIAL_DEVICE, call>>
    /\ AcpiFrame

\* init of the kernel: `match typ`; the Madt is parsed and dropped, the Spcr
\* is handed to the serial driver, which registers the console
DispatchKernel ==
    /\ pc = "dispatch"
    /\ program = "kernel"
    /\ Ran("payload", idx)
    /\ CASE table.typ.name = "Madt" ->
                LET madt == Madt_from_addr(mem, table.data, table.len, FALSE)
                IN  /\ IF madt.res = "Ok"
                       THEN Goes("entry") /\ idx' = idx + 1
                       ELSE Fails(madt) /\ idx' = idx
                    /\ UNCHANGED <<SERIAL_DEVICE, call>>
         [] table.typ.name = "Spcr" ->
                LET spcr == Spcr_from_addr(mem, table.data, table.len)
                IN  IF spcr.res # "Ok"
                    THEN Fails(spcr) /\ UNCHANGED <<idx, SERIAL_DEVICE, call>>
                    ELSE \E baud_rate \in BaudRates :
                        LET device == coerce(spcr.v.interface_type,
                                             spcr.v.address)
                            serial == Serial_init(QuietBus,
                                        spcr.v.interface_type, device,
                                        baud_rate)
                        IN  /\ call' = [op |-> "Serial::init",
                                        interface |-> spcr.v.interface_type,
                                        parsed |-> spcr.v.address,
                                        device |-> device,
                                        res |-> serial.res]
                            /\ IF serial.res = "Ok"
                               THEN /\ SERIAL_DEVICE' = Some(serial.v)
                                    /\ Goes("entry")
                                    /\ idx' = idx + 1
                               ELSE /\ Fails(serial)
                                    /\ UNCHANGED <<idx, SERIAL_DEVICE>>
         [] OTHER ->
                /\ Goes("entry")
                /\ idx' = idx + 1
                /\ UNCHANGED <<SERIAL_DEVICE, call>>
    /\ UNCHANGED <<xsdt, xsdt_entries, table_addr, table, ret>>
    /\ AcpiFrame

\* init: the loop over the entries is over.  The boot loader returns ret;
\* the kernel panics unless a console is registered
Finish ==
    /\ pc = "entry"
    /\ ~(idx < xsdt_entries)
    /\ Ran("return", -1)
    /\ pc' = "done"
    /\ result' = IF program = "bootloader" THEN Ok(ret)
                 ELSE IF ~SERIAL_DEVICE.some
                      THEN [Running EXCEPT !.res = "panic"]
                      ELSE Ok(<<>>)
    /\ UNCHANGED <<xsdt, xsdt_entries, idx, table_addr, table, ret,
                   SERIAL_DEVICE, call>>
    /\ AcpiFrame

NextAcpi ==
    \/ RootChecksum
    \/ RootSignature
    \/ Revision
    \/ ExtendedChecksum
    \/ ExtendedLength
    \/ XsdtHeader
    \/ XsdtSignature
    \/ XsdtEntries
    \/ EntryRead
    \/ TableHeader
    \/ DispatchBootloader
    \/ DispatchKernel
    \/ Finish

SpecAcpi == InitAcpi /\ [][NextAcpi]_vars

(***************************************************************************)
(* Madt::from_addr on its own, over payloads of any shape: the two fixed   *)
(* fields, then one action per pass of the loop, then the return.          *)
(***************************************************************************)

\* The two fixed fields of a MADT payload
FixedFields == le32(4096) \o le32(1)

\* The offset of the k-th record of the well-formed payload of the types ts
RECURSIVE RecordAt(_, _)
RecordAt(ts, k) ==
    IF k = 1 THEN Len(FixedFields)
    ELSE RecordAt(ts, k - 1) + Len(RecordBytes(ts[k - 1], k - 1))

\* Length bytes no record of a well-formed payload has
BadLengths == {0, 1, 2, 7, 255}

\* The well-formed payloads, each of them cut short anywhere, each of them
\* with the length byte of one record changed, and a few more: records of
\* length 2, and a malformed record behind more LocalApics than MAX_CORES
MadtPayloads ==
    LET WellFormed == {MadtDesc(ts) : ts \in SeqsUpTo(RecordTypes, MaxRecords)}
    IN  {Payload(d) : d \in WellFormed}
        \cup UNION {{SubSeq(Payload(d), 1, n) : n \in 0..Len(Payload(d))} :
                    d \in WellFormed}
        \cup UNION {{[Payload(d) EXCEPT ![RecordAt(d.types, k) + 2] = v] :
                        k \in 1..Len(d.types), v \in BadLengths} :
                    d \in WellFormed}
        \cup {FixedFields \o <<1, 2>>,
              FixedFields \o <<1, 2, 1, 2>>,
              FixedFields \o <<1, 2>> \o RecordBytes(0, 1),
              Payload(Crowded) \o <<1, 0>>}

InitMadt ==
    /\ RangeSetIdle
    /\ NoGas
    /\ NoEfi
    /\ call = NoCall
    /\ mem \in MadtPayloads
    /\ slice = PhysSlice(0, Len(mem))
    /\ created = PhysSlice(0, Len(mem))
    /\ taken = 0
    /\ touched = {}
    /\ firmware = <<>>
    /\ program \in Programs
    /\ pc = "madt_fixed"
    /\ xsdt = 0
    /\ xsdt_entries = 0
    /\ idx = 0
    /\ table_addr = 0
    /\ table = NoTable
    /\ ret = Acpi(Some(Madt_empty), NoneV)
    /\ SERIAL_DEVICE = NoneV
    /\ result = Running
    /\ steps = <<>>

MadtFrame ==
    UNCHANGED <<ranges, in_use, before, call, mem, created, touched, firmware,
                program, xsdt, xsdt_entries, idx, table_addr, table,
                SERIAL_DEVICE, gas_vars, efi_vars>>

\* Madt::from_addr: the two consume::<u32>() before the loop
MadtFixed ==
    /\ pc = "madt_fixed"
    /\ LET local_apic_addr == consume(mem, slice, 4)
           flags == consume(mem, local_apic_addr.slice, 4)
       IN  /\ slice' = flags.slice
           /\ taken' = created.len - flags.slice.len
           /\ IF local_apic_addr.res # "Ok" \/ flags.res # "Ok"
              THEN Fails(E_Madt)
              ELSE Goes("madt_loop")
    /\ UNCHANGED <<ret, steps>>
    /\ MadtFrame

\* Madt::from_addr: one pass of `while slice.len() > 0`
MadtPass ==
    /\ pc = "madt_loop"
    /\ slice.len > 0
    /\ LET pass == interrupt_controller(mem, slice, ret.madt.v,
                                        program = "bootloader")
       IN  /\ slice' = pass.slice
           /\ taken' = created.len - pass.slice.len
           /\ IF pass.res.res # "Ok"
              THEN Fails(pass.res) /\ ret' = ret
              ELSE Goes("madt_loop") /\ ret' = [ret EXCEPT !.madt.v = pass.res.v]
    /\ Ran("pass", Len(steps))
    /\ MadtFrame

\* Madt::from_addr: the loop is over, Ok(ret)
MadtReturn ==
    /\ pc = "madt_loop"
    /\ ~(slice.len > 0)
    /\ pc' = "done"
    /\ result' = Ok(ret.madt.v)
    /\ UNCHANGED <<slice, taken, ret, steps>>
    /\ MadtFrame

NextMadt == MadtFixed \/ MadtPass \/ MadtReturn

SpecMadt == InitMadt /\ [][NextMadt]_vars

(***************************************************************************)
(* Spcr::from_addr on the payloads the firmware may hand over              *)
(***************************************************************************)

\* An SPCR payload: the interface type, 3 reserved bytes and the 12-byte Gas,
\* then the interrupt type, the IRQ, the global system interrupt, the baud
\* rate, the parity and the stop bits
SpcrPayload(d, parity, stop_bits) ==
    Payload(d) \o <<1, 4>> \o le32(4) \o <<7, parity, stop_bits>>

ParityOf(payload) == payload[Len(Payload(SpcrDesc(0, 0, 0))) + 8]
StopBitsOf(payload) == payload[Len(Payload(SpcrDesc(0, 0, 0))) + 9]

\* "No parity" is 0 and "one stop bit" is 1 in an SPCR
LegalLine(payload) == ParityOf(payload) = 0 /\ StopBitsOf(payload) = 1

\* The payloads of every parity and number of stop bits, and each of them cut
\* short anywhere
SpcrPayloads ==
    LET Whole == {SpcrPayload(d, p, s) : d \in SpcrTables, p \in 0..2,
                                          s \in 0..2}
    IN  UNION {{SubSeq(w, 1, n) : n \in 0..Len(w)} : w \in Whole}

InitSpcr ==
    /\ RangeSetIdle
    /\ NoGas
    /\ NoEfi
    /\ call = NoCall
    /\ mem \in SpcrPayloads
    /\ slice = PhysSlice(0, Len(mem))
    /\ created = PhysSlice(0, Len(mem))
    /\ taken = 0
    /\ touched = {}
    /\ firmware = <<>>
    /\ program \in Programs
    /\ pc = "spcr"
    /\ xsdt = 0
    /\ xsdt_entries = 0
    /\ idx = 0
    /\ table_addr = 0
    /\ table = NoTable
    /\ ret = Acpi(NoneV, NoneV)
    /\ SERIAL_DEVICE = NoneV
    /\ result = Running
    /\ steps = <<>>

\* Spcr::from_addr, the same function in both programs
SpcrParse ==
    /\ pc = "spcr"
    /\ pc' = "done"
    /\ result' = Spcr_from_addr(mem, created.addr, created.len)
    /\ UNCHANGED <<slice, taken, ret, steps>>
    /\ MadtFrame

NextSpcr == SpcrParse

SpecSpcr == InitSpcr /\ [][NextSpcr]_vars

(***************************************************************************)
(* Register accesses through a Gas: Gas::write and Gas::read on one device *)
(***************************************************************************)

AccessSizes == {"Undefined", "Byte", "Word", "Dword", "Qword", "Unspecified"}

\* Every Gas over a few addresses, register widths and register offsets
Devices ==
    {Gas(space, addr, width, offset, access_size) :
        space \in {"Memory", "Io"}, addr \in {0, 3, U64Max},
        width \in {0, 8, 12, 32}, offset \in {0, 1},
        access_size \in AccessSizes}
    \cup {Gas_Unimplemented}

\* 0xdeadbeef
deadbeef == <<239, 190, 173, 222, 0, 0, 0, 0>>

\* The values written: 0, 0xdeadbeef, 0x0807060504030201
Values == {u64(0), deadbeef, <<1, 2, 3, 4, 5, 6, 7, 8>>}

InitGas ==
    /\ RangeSetIdle
    /\ NoCursor
    /\ NoAcpi
    /\ NoEfi
    /\ call = NoCall
    /\ mem = <<>>
    /\ gas \in Devices
    /\ bus = Bus(<<>>, <<>>)

GasFrame ==
    UNCHANGED <<ranges, in_use, before, mem, cursor_vars, acpi_vars, gas,
                efi_vars>>

\* The call before, if it was a write that succeeded
LastWrite ==
    IF call.op = "Gas::write" /\ call.res = "Ok"
    THEN Some([idx |-> call.idx, val |-> call.val])
    ELSE NoneV

\* gas.write(i, val)
GasWrite ==
    /\ \E i \in 0..MaxIdx, val \in Values :
        LET w == Gas_write(bus, gas, i, val)
        IN  /\ bus' = IF w.res = "Ok" THEN w.v ELSE bus
            /\ call' = [op |-> "Gas::write", idx |-> i, val |-> val,
                        res |-> w.res, err |-> w.err, last |-> NoneV]
    /\ GasFrame

\* gas.read(i)
GasRead ==
    /\ \E i \in 0..MaxIdx :
        LET r == Gas_read(bus, gas, i)
        IN  /\ call' = [op |-> "Gas::read", idx |-> i, val |-> r.v,
                        res |-> r.res, err |-> r.err, last |-> LastWrite]
    /\ bus' = bus
    /\ GasFrame

NextGas == GasWrite \/ GasRead

SpecGas == InitGas /\ [][NextGas]_vars

(***************************************************************************)
(* efi::get_memory_map: the loop over the descriptors of the firmware's    *)
(* memory map, one action per descriptor, and the return.  usable_memory   *)
(* is the RangeSet in ranges and in_use.                                   *)
(***************************************************************************)

\* The bytes of a page: 4096 in the source, scaled to the addresses 0..U64Max
PageSize == 2

\* enum EfiMemoryType, in declaration order
EfiMemoryTypes ==
    <<"ReservedMemoryType", "LoaderCode", "LoaderData", "BootServicesCode",
      "BootServicesData", "RuntimeServicesCode", "RuntimeServicesData",
      "ConventionalMemory", "UnusableMemory", "ACPIReclaimMemory",
      "ACPIMemoryNVS", "MemoryMappedIO", "MemoryMappedIOPortSpace",
      "PalCode", "PersistentMemory">>

\* The bits of a usize and a u64 (64 in the source) and of an i32 (32 in the
\* source), scaled alike: an i32 is narrower than a usize by more than the
\* four bits the ranges of the status codes are told apart by
UsizeBits == 7
I32Bits == 4

\* `as i32` of a usize: the low bits, as a two's complement number
as_i32(val) ==
    LET low == val % 2 ^ I32Bits
    IN  IF low >= 2 ^ (I32Bits - 1) THEN low - 2 ^ I32Bits ELSE low

\* `as i64 as u64` of an i32: sign extension
as_u64(val) == IF val < 0 THEN val + 2 ^ UsizeBits ELSE val

\* `val & !(1 << 63)`
low_bits(val) == val % 2 ^ (UsizeBits - 1)

\* enum EfiWarning and enum EfiError, by code; the codes with no name are
\* Unknown(val)
EfiWarnings ==
    <<"UnknownGlyph", "DeleteFailure", "WriteFailure", "BufferTooSmall",
      "StaleData", "FileSystem", "ResetRequired">>

EfiErrors ==
    <<"LoadError", "InvalidParameter", "Unsupported", "BadBufferSize",
      "BufferTooSmall", "NotReady", "DeviceError", "WriteProtected",
      "OutOfResources", "VolumeCorrupted", "VolumeFull", "NoMedia",
      "MediaChanged", "NotFound", "AccessDenied", "NoResponse", "NoMapping",
      "Timeout", "NotStarted", "AlreadyStarted", "Aborted", "IcmpError",
      "TftpError", "ProtocolError", "IncompatibleVersion",
      "SecurityViolation", "CrcError", "EndOfMedia", "Unknown", "Unknown",
      "EndOfFile", "InvalidLanguage", "CompromisedData", "IpAddressConflict",
      "HttpError">>

Named(names, code) ==
    IF code \in DOMAIN names THEN names[code] ELSE "Unknown"

EfiStatus(kind, code) == [kind |-> kind, code |-> code]
Success == EfiStatus("Success", "-")

\* 0x7fffffffffffffff and 0xcfffffffffffffff
WarningMax == 2 ^ (UsizeBits - 1) - 1
ErrorMax == 13 * 2 ^ (UsizeBits - 4) - 1

\* impl From<EfiStatusCode> for EfiStatus; the last arm is unreachable!()
EfiStatus_from(raw) ==
    LET val == as_u64(as_i32(raw))
    IN  IF val = 0 THEN Success
        ELSE IF 1 <= val /\ val <= WarningMax
        THEN EfiStatus("Warning", Named(EfiWarnings, low_bits(val)))
        ELSE IF WarningMax < val /\ val <= ErrorMax
        THEN EfiStatus("Error", Named(EfiErrors, low_bits(val)))
        ELSE EfiStatus("unreachable", "-")

\* impl From<u32> for EfiMemoryType
EfiMemoryType_from(val) ==
    IF val < Len(EfiMemoryTypes) THEN EfiMemoryTypes[val + 1] ELSE "Invalid"

\* avail_post_exit_boot_services, taking the loader's data as usable too
avail_with_loader_data(typ) ==
    typ \in {"LoaderData", "BootServicesCode", "BootServicesData",
              "ConventionalMemory", "PersistentMemory"}

\* EfiMemoryType::avail_post_exit_boot_services
avail_post_exit_boot_services(typ) ==
    typ \in {"BootServicesCode", "BootServicesData", "ConventionalMemory",
              "PersistentMemory"}

\* struct EfiMemoryDescriptor, the fields get_memory_map reads
EfiMemoryDescriptor(typ, physical_start, number_of_pages) ==
    [typ |-> typ, physical_start |-> physical_start,
     number_of_pages |-> number_of_pages]

\* The descriptors of the firmware: every type value and one past the last
Descriptors ==
    {EfiMemoryDescriptor(typ, start, pages) :
        typ \in 0..Len(EfiMemoryTypes), start \in Addr, pages \in 0..MaxPages}

\* The body of the loop for one descriptor: the result and usable_memory
\* after it
entry_step(usable_memory, entry) ==
    LET typ == EfiMemoryType_from(entry.typ)
        bytes == checked_mul(entry.number_of_pages, PageSize)
        end == IF bytes.some
               THEN checked_add(entry.physical_start, bytes.v - 1)
               ELSE NoneV
        ins == insert(usable_memory, Range(entry.physical_start, end.v))
    IN  IF ~(avail_post_exit_boot_services(typ) /\ entry.number_of_pages > 0)
        THEN [rs |-> usable_memory, res |-> Running]
        ELSE IF ~bytes.some \/ ~end.some
        THEN [rs |-> usable_memory,
              res |-> Err("MemoryMapIntegerOverflow", NoType)]
        ELSE IF ins.res # "Ok"
        THEN [rs |-> ins.rs, res |-> Err("MemoryRangeSet", TableType(ins.res))]
        ELSE [rs |-> ins.rs, res |-> Running]

\* The addresses a descriptor describes as usable once boot services are
\* left: those of its pages, if its type is 3, 4, 7 or 14
UsableOf(entry) ==
    IF entry.typ \in {3, 4, 7, 14}
    THEN {a \in 0..(2 * U64Max + MaxPages * PageSize) :
            /\ entry.physical_start <= a
            /\ a < entry.physical_start + entry.number_of_pages * PageSize}
    ELSE {}

\* The descriptor is usable, has pages, and its last byte lies past the last
\* address
Overflows(entry) ==
    /\ entry.typ \in {3, 4, 7, 14}
    /\ entry.number_of_pages > 0
    /\ entry.physical_start + entry.number_of_pages * PageSize - 1 > U64Max

\* The status codes of the firmware: every usize
EfiStatusCodes == 0..(2 ^ UsizeBits - 1)

InitEfi ==
    /\ RangeSetIdle
    /\ NoCursor
    /\ NoAcpi
    /\ NoGas
    /\ off = 0
    /\ described = {}
    /\ efi = Running
    /\ EFI_SYSTEM_TABLE \in {null_mut, 1}
    /\ call = NoCall
    /\ mem = <<>>

EfiFrame ==
    UNCHANGED <<before, mem, cursor_vars, acpi_vars, gas_vars,
                EFI_SYSTEM_TABLE>>

\* get_memory_map up to its loop: the system table is loaded, the firmware
\* is called and its status is converted and compared with Success
FirmwareCall ==
    /\ efi = Running
    /\ call = NoCall
    /\ IF EFI_SYSTEM_TABLE = null_mut
       THEN /\ efi' = Err("NotRegistered", NoType)
            /\ call' = [op |-> "load", res |-> "Err"]
       ELSE \E raw \in EfiStatusCodes :
            LET status == EfiStatus_from(raw)
            IN  /\ efi' = CASE status.kind = "unreachable" ->
                                [Running EXCEPT !.res = "panic"]
                            [] status = Success -> Running
                            [] OTHER ->
                                [Err("MemoryMap", NoType) EXCEPT !.v = status]
                /\ call' = [op |-> "get_memory_map", raw |-> raw,
                            res |-> status.kind]
    /\ UNCHANGED <<ranges, in_use, off, described>>
    /\ EfiFrame

\* `for off in (0..size).step_by(mdesc_size)`: the next descriptor
Descriptor ==
    /\ efi = Running
    /\ call # NoCall
    /\ off < MaxDescriptors
    /\ \E entry \in Descriptors :
        LET r == entry_step(self, entry)
        IN  /\ ranges' = r.rs.ranges
            /\ in_use' = r.rs.in_use
            /\ efi' = r.res
            /\ described' = described \cup UsableOf(entry)
            /\ call' = [op |-> "descriptor", overflows |-> Overflows(entry),
                        res |-> r.res.res]
    /\ off' = off + 1
    /\ EfiFrame

\* The map has no more descriptors: Ok(usable_memory)
ReturnMap ==
    /\ efi = Running
    /\ call # NoCall
    /\ efi' = Ok(self)
    /\ call' = [op |-> "return", res |-> "Ok"]
    /\ UNCHANGED <<ranges, in_use, off, described>>
    /\ EfiFrame

NextEfi == FirmwareCall \/ Descriptor \/ ReturnMap

SpecEfi == InitEfi /\ [][NextEfi]_vars

(***************************************************************************)
(* The two globals: EFI_SYSTEM_TABLE, set by EfiSystemTablePtr::register,  *)
(* and SERIAL_DEVICE, set by Serial::init                                  *)
(***************************************************************************)

\* The pointers handed to register: null and two system tables
Pointers == {null_mut, 1, 2}

\* AtomicPtr::swap: the pointer stored afterwards
swap(stored, current, ptr) == ptr

\* AtomicPtr::compare_and_swap: the pointer stored afterwards
compare_and_swap(stored, current, ptr) ==
    IF stored = current THEN ptr ELSE stored

\* The devices handed to Serial::init: registers of 8 and of 0 bits, in
\* either space
Consoles ==
    {Gas(space, addr, width, 0, access_size) :
        space \in {"Memory", "Io"}, addr \in {0, 1, 3}, width \in {0, 8},
        access_size \in {"Undefined", "Byte"}}

InitGlobals ==
    /\ RangeSetIdle
    /\ NoCursor
    /\ NoAcpi
    /\ NoGas
    /\ NoEfi
    /\ call = NoCall
    /\ mem = <<>>

GlobalsFrame ==
    UNCHANGED <<ranges, in_use, before, mem, cursor_vars, firmware, program,
                pc, xsdt, xsdt_entries, idx, table_addr, table, ret, result,
                steps, gas_vars, off, described, efi>>

\* EfiSystemTablePtr(ptr).register()
register ==
    /\ \E ptr \in Pointers :
        /\ EFI_SYSTEM_TABLE' =
                compare_and_swap(EFI_SYSTEM_TABLE, null_mut, ptr)
        /\ call' = [op |-> "register", ptr |-> ptr, res |-> "Ok"]
    /\ UNCHANGED SERIAL_DEVICE
    /\ GlobalsFrame

\* Serial::init(interface, device, baud_rate)
SerialInit ==
    /\ \E val \in {0, 1}, device \in Consoles, baud_rate \in BaudRates :
        LET serial == Serial_init(QuietBus, SerialInterface_from(val), device,
                                  baud_rate)
        IN  /\ SERIAL_DEVICE' = IF serial.res = "Ok" THEN Some(serial.v)
                                 ELSE SERIAL_DEVICE
            /\ call' = [op |-> "Serial::init", device |-> device,
                        res |-> serial.res, last |-> SERIAL_DEVICE]
    /\ UNCHANGED EFI_SYSTEM_TABLE
    /\ GlobalsFrame

NextGlobals == register \/ SerialInit

SpecGlobals == InitGlobals /\ [][NextGlobals]_vars

(***************************************************************************)
(* The vocabulary of the properties: addresses covered, entries stored.    *)
(***************************************************************************)

\* The addresses of the closed interval [r.start, r.end]
AddrsOf(r) == {a \in Addr : r.start <= a /\ a <= r.end}

\* The stored entries, as a set, and the addresses they cover
Stored(rs) == {rs.ranges[i] : i \in 1..rs.in_use}
Covered(rs) == UNION {AddrsOf(e) : e \in Stored(rs)}

\* a and b neither overlap nor touch
Apart(a, b) == a.end + 1 < b.start \/ b.end + 1 < a.start

\* e strictly contains r
StrictlyInside(r, e) == e.start < r.start /\ r.end < e.end

Disjoint(rs) ==
    /\ rs.in_use <= Capacity
    /\ \A i \in 1..rs.in_use : rs.ranges[i].start <= rs.ranges[i].end
    /\ \A i, j \in 1..rs.in_use : i # j => Apart(rs.ranges[i], rs.ranges[j])

\* C1: after any sequence of successful insert, remove, allocate and
\* allocate_prefer calls on an empty set, the entries are pairwise disjoint and
\* non-touching, each has start <= end, and at most Capacity are in use.
C1_DisjointAfterSuccessfulCalls == Disjoint(self)

\* C2: a successful remove(r) takes exactly the addresses of r out of the set,
\* and an entry that strictly contains r is split into [e.start, r.start-1]
\* and [r.end+1, e.end].
C2_RemoveTakesExactlyRange ==
    (call.op = "remove" /\ call.res = "Ok") =>
        /\ Covered(self) = Covered(before) \ AddrsOf(call.range)
        /\ \A e \in Stored(before) :
              StrictlyInside(call.range, e) =>
                  /\ Range(e.start, call.range.start - 1) \in Stored(self)
                  /\ Range(call.range.end + 1, e.end) \in Stored(self)

\* a and b overlap or touch (end + 1 == start counts as touching)
Touching(a, b) == a.start <= b.end + 1 /\ b.start <= a.end + 1

\* C3: a successful insert(r) adds exactly the addresses of r; every stored
\* entry that overlapped or touched r is replaced by the single entry that
\* spans them; inserting r a second time gives the same set; and
\* inserting [0,1] then the touching [2,3] gives the single entry [0,3].
C3_InsertIsUnionWithMerge ==
    (call.op = "insert" /\ call.res = "Ok") =>
        /\ Covered(self) = Covered(before) \cup AddrsOf(call.range)
        /\ \E m \in Stored(self) :
              /\ AddrsOf(call.range) \subseteq AddrsOf(m)
              /\ \A e \in Stored(self) : e # m => ~Touching(e, call.range)
              /\ \A e \in Stored(before) :
                    (e.start <= e.end /\ Touching(e, call.range)) =>
                        /\ AddrsOf(e) \subseteq AddrsOf(m)
                        /\ (e \in Stored(self) => e = m)
        /\ LET again == insert(self, call.range)
           IN  /\ again.res = "Ok"
               /\ Stored(again.rs) = Stored(self)
               /\ again.rs.in_use = in_use
        /\ (entries(before) = <<Range(0, 1)>> /\ call.range = Range(2, 3)) =>
               entries(self) = <<Range(0, 3)>>

\* Reached: an insert that merged the two stored entries it touched
C3_Witness ==
    /\ call.op = "insert" /\ call.res = "Ok"
    /\ before.in_use = 2 /\ in_use = 1
    /\ \A e \in Stored(before) : e.start <= e.end /\ Touching(e, call.range)
    /\ Covered(before) # Covered(self)

\* C4: on any reachable set, remove(r) of a range strictly inside one stored
\* entry followed by insert(r) gives back exactly the entries held before.
C4_RemoveThenInsertRestores ==
    (/\ call.op = "remove" /\ call.res = "Ok"
     /\ \E e \in Stored(before) : StrictlyInside(call.range, e)) =>
        LET back == insert(self, call.range)
        IN  /\ back.res = "Ok"
            /\ Stored(back.rs) = Stored(before)
            /\ back.rs.in_use = before.in_use

\* The number of addresses the entries stand for: the sum of end - start + 1
RECURSIVE TotalFrom(_, _)
TotalFrom(rs, i) ==
    IF i > rs.in_use
    THEN 0
    ELSE rs.ranges[i].end - rs.ranges[i].start + 1 + TotalFrom(rs, i + 1)

Total(rs) == TotalFrom(rs, 1)

\* C5: a successful allocate(size, align) returns an aligned address whose
\* span [addr, addr+size-1] was covered, removes exactly that span, and the
\* sum drops by exactly size.
C5_AllocateRemovesExactlySpan ==
    (call.op = "allocate" /\ call.res = "Ok") =>
        LET span == Range(call.val, call.val + call.size - 1)
        IN  /\ call.val % call.align = 0
            /\ AddrsOf(span) \subseteq Covered(before)
            /\ Covered(self) = Covered(before) \ AddrsOf(span)
            /\ Total(self) = Total(before) - call.size

\* The first multiple of align at or above x
AlignUp(x, align) == ((x + align - 1) \div align) * align

\* The intersection of two intervals (start > end when they do not meet)
Meet(a, b) == Range(Max2(a.start, b.start), Min2(a.end, b.end))

\* The interval o holds size bytes from its first aligned address on
Holds(o, size, align) ==
    o.start <= o.end /\ AlignUp(o.start, align) + size - 1 <= o.end

\* The pairs (free entry, preferred entry) whose overlap holds the request
PreferredFits(rs, regions, size, align) ==
    {p \in (1..rs.in_use) \X (1..regions.in_use) :
        Holds(Meet(rs.ranges[p[1]], regions.ranges[p[2]]), size, align)}

\* From the start of the free range e through the last allocated byte
FitSpan(e, size, align) == AlignUp(e.start, align) + size - 1 - e.start

\* ptr is taken from a free range that holds the request, and no free range
\* that holds it gives a smaller span
BestFit(rs, size, align, ptr) ==
    \E i \in 1..rs.in_use :
        /\ Holds(rs.ranges[i], size, align)
        /\ ptr = AlignUp(rs.ranges[i].start, align)
        /\ \A j \in 1..rs.in_use :
              Holds(rs.ranges[j], size, align) =>
                  FitSpan(rs.ranges[i], size, align) <= FitSpan(rs.ranges[j], size, align)

\* The first pair of a set of pairs: free-entry order, then preferred order
FirstPair(ps) ==
    CHOOSE p \in ps : \A q \in ps : p[1] < q[1] \/ (p[1] = q[1] /\ p[2] <= q[2])

\* C6: with a preferred set, the allocation is taken from the first overlap
\* (free-entry order, then preferred-entry order) that holds the aligned
\* request, and lies inside that overlap; only when no overlap holds it is
\* the best fit over all free ranges taken.
C6_FirstPreferredFit ==
    (call.op = "allocate_prefer" /\ call.res = "Ok") =>
        LET fits == PreferredFits(before, call.regions.v, call.size, call.align)
        IN  IF fits # {}
            THEN LET p == FirstPair(fits)
                     o == Meet(before.ranges[p[1]], call.regions.v.ranges[p[2]])
                 IN  /\ call.val = AlignUp(o.start, call.align)
                     /\ o.start <= call.val
                     /\ call.val + call.size - 1 <= o.end
            ELSE BestFit(before, call.size, call.align, call.val)

\* Reached: the allocation comes from a preferred overlap in the second free
\* entry although the first free entry holds the request too, and a later
\* preferred overlap holds it as well
C6_Witness ==
    /\ call.op = "allocate_prefer" /\ call.res = "Ok"
    /\ before.in_use = 2
    /\ Holds(before.ranges[1], call.size, call.align)
    /\ LET fits == PreferredFits(before, call.regions.v, call.size, call.align)
       IN  /\ Cardinality(fits) >= 2
           /\ FirstPair(fits)[1] = 2
           /\ call.val # AlignUp(before.ranges[1].start, call.align)

\* Reached: no preferred overlap holds the request and the best fit is taken
C6_WitnessFallback ==
    /\ call.op = "allocate_prefer" /\ call.res = "Ok"
    /\ PreferredFits(before, call.regions.v, call.size, call.align) = {}
    /\ \E p \in (1..before.in_use) \X (1..call.regions.v.in_use) :
          Meet(before.ranges[p[1]], call.regions.v.ranges[p[2]]).start
              <= Meet(before.ranges[p[1]], call.regions.v.ranges[p[2]]).end

\* C7: with no preferred set, a successful allocate takes the best fit: no
\* free range that holds the aligned request gives a smaller span than the
\* range the allocation is taken from.
C7_BestFit ==
    (call.op = "allocate" /\ call.res = "Ok") =>
        BestFit(before, call.size, call.align, call.val)

\* Reached: both free entries hold the request and the second, later one
\* gives the smaller span and is taken
C7_Witness ==
    /\ call.op = "allocate" /\ call.res = "Ok"
    /\ before.in_use = 2
    /\ Holds(before.ranges[1], call.size, call.align)
    /\ Holds(before.ranges[2], call.size, call.align)
    /\ FitSpan(before.ranges[2], call.size, call.align)
           < FitSpan(before.ranges[1], call.size, call.align)
    /\ call.val = AlignUp(before.ranges[2].start, call.align)

IsPowerOfTwo(a) == \E k \in 0..U64Bits : a = 2 ^ k

\* C8: a failing allocate / allocate_prefer leaves the set unchanged;
\* size 0 gives ZeroSizeAllocation, an align that is no power of two gives
\* InvalidAlignment, and a request no free range holds gives OutOfMemory.
C8_FailedAllocateChangesNothing ==
    (call.op \in {"allocate", "allocate_prefer"} /\ call.res # "Ok") =>
        /\ entries(self) = entries(before)
        /\ call.size = 0 => call.res = "ZeroSizeAllocation"
        /\ (call.size # 0 /\ ~IsPowerOfTwo(call.align)) => call.res = "InvalidAlignment"
        /\ (/\ call.size # 0
            /\ IsPowerOfTwo(call.align)
            /\ \A e \in Stored(before) : ~Holds(e, call.size, call.align))
               => call.res = "OutOfMemory"

\* C9: insert fails with OutOfEntries exactly when all Capacity entries are
\* in use and the new range overlaps or touches none of them; the set is
\* then unchanged.
C9_InsertOutOfEntries ==
    (call.op = "insert" /\ call.range.start <= call.range.end) =>
        /\ (call.res = "OutOfEntries") <=>
              (/\ before.in_use = Capacity
               /\ \A e \in Stored(before) : Apart(e, call.range))
        /\ call.res = "OutOfEntries" => entries(self) = entries(before)

\* C10: sum() returns the sum over all entries of end - start + 1, and None,
\* never a wrapped value or a panic, when that does not fit.
C10_SumIsTotalOrNone ==
    call.op = "sum" =>
        /\ call.res # "panic"
        /\ Total(before) <= U64Max => (call.res = "Some" /\ call.val = Total(before))
        /\ Total(before) > U64Max => call.res = "None"
        /\ call.res = "Some" => call.val = Cardinality(Covered(before))

\* The addresses of the cursor as it was created: base0 .. base0 + N - 1
Within(s) == s.addr..(s.addr + s.len - 1)

\* What one discard or consume call does to the cursor, the request being
\* call'.bytes
CursorCall ==
    /\ call'.res = "Ok" <=> call'.bytes <= slice.len
    /\ call'.res = "Ok" =>
        /\ slice'.addr = slice.addr + call'.bytes
        /\ slice'.len = slice.len - call'.bytes
    /\ call'.res # "Ok" =>
        /\ slice' = slice
        /\ touched' = touched

\* C11: a discard or consume call succeeds exactly when the requested size is
\* at most the remaining length; a success advances the base and lowers the
\* remaining length by the requested size, a failure changes nothing and reads
\* nothing; the remaining length is always N minus the bytes taken, and no
\* read is at or beyond base0 + N.
C11_CursorStaysInside ==
    /\ [](/\ slice.len = created.len - taken
          /\ slice.addr = created.addr + taken
          /\ touched \subseteq Within(created))
    /\ [][CursorCall]_vars

\* A cursor of two or more bytes read to its end, the last call a consume; and
\* a call refused on a cursor that still holds bytes
C11_Witness ==
    /\ call.op = "consume"
    /\ call.res = "Ok"
    /\ created.len >= 2
    /\ slice.len = 0
    /\ touched = Within(created)

C11_WitnessRefused ==
    /\ call.op \in {"consume", "discard"}
    /\ call.res = "Err"
    /\ slice.len > 0
    /\ taken > 0

\* The sum mod 256 of the `size` bytes of m from address addr on; the bytes
\* past the end of m are zero
SpanSum(m, addr, size) == SumFrom(m, addr + 1, Min2(addr + size, Len(m)))

\* The length a table header at addr declares, and the pointer to the table
\* list in the root pointer
DeclaredLength(m, addr) ==
    from_le_bytes([i \in 1..4 |-> read_u8(m, addr + 3 + i)])
ListPointer(m) ==
    from_le_bytes([i \in 1..8 |-> read_u8(m, rsdp_addr + 23 + i)])

LastStep == steps[Len(steps)].step

\* The checksum step that has just run has let through exactly the spans
\* that sum to zero, and has failed with ChecksumMismatch only
ChecksumAccepts ==
    /\ LastStep = "root checksum" =>
        /\ pc # "done" <=> SpanSum(mem, rsdp_addr, size_of_Rsdp) = 0
        /\ pc = "done" => result.err = "ChecksumMismatch"
    /\ LastStep = "extended checksum" =>
        /\ pc # "done" <=> SpanSum(mem, rsdp_addr, size_of_RsdpExtended) = 0
        /\ pc = "done" => result.err = "ChecksumMismatch"
    /\ LastStep = "table-list header" =>
        (result.err = "ChecksumMismatch" <=>
            SpanSum(mem, ListPointer(mem),
                    DeclaredLength(mem, ListPointer(mem))) # 0)
    /\ LastStep = "header" =>
        (result.err = "ChecksumMismatch" <=>
            SpanSum(mem, table_addr, DeclaredLength(mem, table_addr)) # 0)
    /\ LastStep = "root signature" =>
        (pc # "done" <=> [i \in 1..8 |-> read_u8(mem, rsdp_addr + i - 1)]
                            = RSD_PTR)

\* The addresses of the length fields of the tables of the image
LengthFields(fw) ==
    UNION {(a + 4)..(a + 7) :
            a \in {XsdtAddr} \cup {TableAddr(fw, i) : i \in 1..Len(fw.tables)}}

\* C12 as claimed: a checksum accepts exactly the spans that sum to 0 mod 256,
\* and an image with any one byte changed, a byte of a table's length field
\* included, is rejected with ChecksumMismatch.
C12_AnyChangedByteIsChecksumMismatch ==
    steps # <<>> =>
        /\ ChecksumAccepts
        /\ (pc = "done" /\ firmware.mutation.some) =>
                result.err = "ChecksumMismatch"

\* C12, amended: a checksum accepts exactly the spans that sum to 0 mod 256,
\* and an image with one byte changed outside the length fields of its tables
\* is rejected with ChecksumMismatch.
C12_ChangedByteIsChecksumMismatch ==
    steps # <<>> =>
        /\ ChecksumAccepts
        /\ (/\ pc = "done"
            /\ firmware.mutation.some
            /\ firmware.mutation.at \notin LengthFields(firmware)) =>
                result.err = "ChecksumMismatch"

\* A byte of the payload of the last table has changed, and the run has got
\* as far as that table and rejected it
C12_Witness ==
    /\ pc = "done"
    /\ firmware.mutation.some
    /\ firmware.mutation.at >=
            TableAddr(firmware, Len(firmware.tables)) + size_of_Table
    /\ LastStep = "header"
    /\ idx = Len(firmware.tables) - 1
    /\ result.err = "ChecksumMismatch"

\* C13: the run is all or nothing: when it has failed, the error is all
\* there is; neither a Madt or Spcr parsed from an earlier table is returned
\* nor is a console registered from an earlier SPCR left behind.
C13_AllOrNothing ==
    (pc = "done" /\ result.res = "Err") =>
        /\ result.v = <<>>
        /\ ~SERIAL_DEVICE.some

\* The boot loader's run alone is all or nothing: ret is dropped with the error
C13_BootloaderAllOrNothing ==
    (pc = "done" /\ result.res = "Err" /\ program = "bootloader") =>
        /\ result.v = <<>>
        /\ ~SERIAL_DEVICE.some

\* The boot loader has failed on a table after one it had parsed
C13_Witness ==
    /\ pc = "done"
    /\ result.res = "Err"
    /\ program = "bootloader"
    /\ ret.spcr.some
    /\ idx > 0

\* The Gas of a 16550's SPCR had no access size, and init has handed it over
Handed(space) ==
    /\ call.op = "Serial::init"
    /\ call.interface.name = "Serial16550"
    /\ call.parsed.space = space
    /\ call.parsed.access_size = "Undefined"

\* The run over the image of the example is over
ExampleDone ==
    /\ pc = "done"
    /\ firmware.tables = <<MadtDesc(<<0>>), SpcrDesc(0, 1, 0)>>
    /\ mem = Unchanged(Usual)

\* The example's outcome: the boot loader returns one processor, the kernel
\* has registered a console whose Gas has access size Byte
ExampleOutcome ==
    /\ result.res = "Ok"
    /\ program = "bootloader" =>
            result.v.madt.some /\ result.v.madt.v.num_apics = 1
    /\ program = "kernel" =>
            /\ SERIAL_DEVICE.some
            /\ SERIAL_DEVICE.v.device.space = "Io"
            /\ SERIAL_DEVICE.v.device.access_size = "Byte"

\* C14 as claimed: the Gas of a 16550 whose access size is Undefined reaches
\* the serial driver with access size Byte and its other fields unchanged,
\* in the Io and in the Memory address space alike.
C14_UndefinedBecomesByteInAnySpace ==
    /\ \A space \in {"Io", "Memory"} :
            Handed(space) =>
                call.device = [call.parsed EXCEPT !.access_size = "Byte"]
    /\ ExampleDone => ExampleOutcome

\* C14, amended: the Gas of a 16550 whose access size is Undefined reaches the
\* serial driver with access size Byte and its other fields unchanged when
\* its address space is Io; every other Gas reaches the driver as parsed.
C14_UndefinedIoBecomesByte ==
    /\ Handed("Io") =>
            call.device = [call.parsed EXCEPT !.access_size = "Byte"]
    /\ (call.op = "Serial::init" /\ ~Handed("Io")) =>
            call.device = call.parsed
    /\ ExampleDone => ExampleOutcome

\* The kernel has run over the example's image and registered the console
C14_Witness ==
    /\ ExampleDone
    /\ program = "kernel"
    /\ Handed("Io")
    /\ SERIAL_DEVICE.some

\* A memory-mapped 16550 with no access size has been handed over
C14_WitnessMemory == Handed("Memory")

\* The low `bytes` bytes of the u64 val, zero-extended
LowBytes(val, bytes) == [i \in 1..8 |-> IF i <= bytes THEN val[i] ELSE 0]

\* A read of the register that the call before wrote
ReadBack ==
    /\ call.op = "Gas::read"
    /\ call.last.some
    /\ call.last.v.idx = call.idx

\* C15: a read of a Memory Gas right after a write at the same index returns
\* the value written modulo 2^w, zero-extended to 64 bits, w being the width
\* of the access size (8, 16, 32 or 64 bits).
C15_MemoryRoundTrip ==
    (ReadBack /\ gas.space = "Memory") =>
        /\ call.res = "Ok"
        /\ call.val =
             LowBytes(call.last.v.val,
                      CASE gas.access_size = "Byte" -> 1
                        [] gas.access_size = "Word" -> 2
                        [] gas.access_size = "Dword" -> 4
                        [] gas.access_size = "Qword" -> 8)

\* 0xdeadbeef has been read back through a Dword register
C15_Witness ==
    /\ ReadBack
    /\ gas.space = "Memory"
    /\ gas.access_size = "Dword"
    /\ call.last.v.val = deadbeef
    /\ call.val = deadbeef

\* 0xdeadbeef has been read back through a Word register as 0xbeef
C15_WitnessTruncated ==
    /\ ReadBack
    /\ gas.space = "Memory"
    /\ gas.access_size = "Word"
    /\ call.last.v.val = deadbeef
    /\ call.val = <<239, 190, 0, 0, 0, 0, 0, 0>>

\* C16: the set get_memory_map returns covers exactly the addresses of the
\* descriptors of type BootServicesCode, BootServicesData, ConventionalMemory
\* and PersistentMemory that have pages; a descriptor whose size or end
\* overflows ends the call with MemoryMapIntegerOverflow.
C16_UsableMemoryIsTheUnion ==
    /\ efi.res = "Ok" => Covered(efi.v) = described
    /\ (call.op = "descriptor" /\ call.overflows) =>
            efi.res = "Err" /\ efi.err = "MemoryMapIntegerOverflow"

\* The map returned holds two ranges that cover the three pages described,
\* two of which touch or overlap
C16_Witness ==
    /\ efi.res = "Ok"
    /\ efi.v.in_use = 2
    /\ off = MaxDescriptors
    /\ Cardinality(described) = 3 * PageSize

\* A descriptor has overflowed
C16_WitnessOverflow ==
    /\ call.op = "descriptor"
    /\ call.overflows
    /\ efi.err = "MemoryMapIntegerOverflow"

\* The first 20 bytes of the root pointer pass the checksum and the signature
RootValid ==
    /\ SpanSum(mem, rsdp_addr, size_of_Rsdp) = 0
    /\ [i \in 1..8 |-> read_u8(mem, rsdp_addr + i - 1)] = RSD_PTR

RootRevision == read_u8(mem, rsdp_addr + 15)

\* The step has run
HasRun(name) == \E i \in 1..Len(steps) : steps[i].step = name

\* C17: a root pointer is rejected with the tag of the part that failed: Rsdp
\* for the checksum and the signature of the first 20 bytes, RsdpExtended for
\* the checksum and the length of the 36 bytes; a revision below 2 is
\* rejected with RevisionTooOld before any extended field is read.
C17_RootErrorsAreTagged ==
    pc = "done" =>
        /\ SpanSum(mem, rsdp_addr, size_of_Rsdp) # 0 =>
                result = Err("ChecksumMismatch", TableType("Rsdp"))
        /\ (SpanSum(mem, rsdp_addr, size_of_Rsdp) = 0 /\ ~RootValid) =>
                result = Err("SignatureMismatch", TableType("Rsdp"))
        /\ (RootValid /\ RootRevision < 2) =>
                /\ result = Err("RevisionTooOld", NoType)
                /\ ~HasRun("extended checksum")
                /\ ~HasRun("extended length")
        /\ (/\ RootValid
            /\ RootRevision >= 2
            /\ SpanSum(mem, rsdp_addr, size_of_RsdpExtended) # 0) =>
                result = Err("ChecksumMismatch", TableType("RsdpExtended"))
        /\ (/\ RootValid
            /\ RootRevision >= 2
            /\ SpanSum(mem, rsdp_addr, size_of_RsdpExtended) = 0
            /\ DeclaredLength(mem, rsdp_addr + 16) # size_of_RsdpExtended) =>
                result = Err("LengthMismatch", TableType("RsdpExtended"))

\* The same with the extended checksum left untagged: what holds of the code
C17_RootErrorsButExtendedChecksum ==
    pc = "done" =>
        /\ SpanSum(mem, rsdp_addr, size_of_Rsdp) # 0 =>
                result = Err("ChecksumMismatch", TableType("Rsdp"))
        /\ (SpanSum(mem, rsdp_addr, size_of_Rsdp) = 0 /\ ~RootValid) =>
                result = Err("SignatureMismatch", TableType("Rsdp"))
        /\ (RootValid /\ RootRevision < 2) =>
                /\ result = Err("RevisionTooOld", NoType)
                /\ ~HasRun("extended checksum")
                /\ ~HasRun("extended length")
        /\ (/\ RootValid
            /\ RootRevision >= 2
            /\ SpanSum(mem, rsdp_addr, size_of_RsdpExtended) # 0) =>
                result.err = "ChecksumMismatch"
        /\ (/\ RootValid
            /\ RootRevision >= 2
            /\ SpanSum(mem, rsdp_addr, size_of_RsdpExtended) = 0
            /\ DeclaredLength(mem, rsdp_addr + 16) # size_of_RsdpExtended) =>
                result = Err("LengthMismatch", TableType("RsdpExtended"))

\* The checks of the root pointer and of the table list, in order, and the
\* steps on each entry of the list
RootAndListOrder ==
    <<"root checksum", "root signature", "revision", "extended checksum",
      "extended length", "table-list header", "table-list signature",
      "table-list length">>
EntryOrder == <<"entry read", "header", "payload">>

\* The i-th step of a run is the i-th of the fixed order; the return comes
\* where the steps on a next entry would start
InOrder(i) ==
    IF i <= Len(RootAndListOrder)
    THEN steps[i] = [step |-> RootAndListOrder[i], idx |-> -1]
    ELSE LET k == i - Len(RootAndListOrder) - 1
         IN  \/ steps[i] = [step |-> EntryOrder[(k % 3) + 1], idx |-> k \div 3]
             \/ /\ steps[i] = [step |-> "return", idx |-> -1]
                /\ k % 3 = 0
                /\ i = Len(steps)

\* The root pointer and the table list pass every check
RootAndListValid ==
    /\ RootValid
    /\ RootRevision >= 2
    /\ SpanSum(mem, rsdp_addr, size_of_RsdpExtended) = 0
    /\ DeclaredLength(mem, rsdp_addr + 16) = size_of_RsdpExtended
    /\ SpanSum(mem, ListPointer(mem), DeclaredLength(mem, ListPointer(mem))) = 0
    /\ [i \in 1..4 |-> read_u8(mem, ListPointer(mem) + i - 1)] = XSDT
    /\ DeclaredLength(mem, ListPointer(mem)) >= size_of_Table
    /\ (DeclaredLength(mem, ListPointer(mem)) - size_of_Table) % 8 = 0

\* C18: the checks run in one fixed order: root checksum, root signature,
\* revision, extended checksum, extended length, table-list header checksum,
\* table-list signature, table-list length, then for each entry in index
\* order its pointer read, header check and payload parse; no entry is read
\* unless the root and the list pass every check, and the first failure
\* ends the run.
C18_FixedOrder ==
    /\ [](/\ \A i \in 1..Len(steps) : InOrder(i)
          /\ HasRun("entry read") => RootAndListValid
          /\ result.res = "Err" => pc = "done"
          /\ (pc = "done" /\ LastStep = "table-list length") =>
                result = Err("XsdtBadEntries", NoType))
    /\ [][result.res = "Running" /\ Len(steps') = Len(steps) + 1]_vars

\* A run has gone through every check, and through two entries in order
C18_Witness ==
    /\ pc = "done"
    /\ result.res = "Ok"
    /\ Len(steps) = Len(RootAndListOrder) + 2 * Len(EntryOrder) + 1
    /\ steps[Len(steps) - 1] = [step |-> "payload", idx |-> 1]

\* A run has ended at the first failure, on the second entry
C18_WitnessFailure ==
    /\ pc = "done"
    /\ result.res = "Err"
    /\ LastStep = "header"
    /\ idx = 1

\* The positions of the records of type t in the payload, in order
Positions(ts, t) ==
    LET F[n \in 0..Len(ts)] ==
            IF n = 0 THEN <<>>
            ELSE IF ts[n] = t THEN Append(F[n - 1], n) ELSE F[n - 1]
    IN  F[Len(ts)]

\* The boot loader has just parsed the payload of a MADT of the image
MadtParsed ==
    /\ program = "bootloader"
    /\ steps # <<>>
    /\ LastStep = "payload"
    /\ ~firmware.mutation.some
    /\ firmware.tables[steps[Len(steps)].idx + 1].kind = "Madt"

\* The record types of that MADT
ParsedTypes == firmware.tables[steps[Len(steps)].idx + 1].types

\* C19: the Madt of a well-formed payload holds its type-0 records in payload
\* order, as many as there are; records of other types than 0 and 9 are
\* stepped over; with more type-0 records than the arrays hold the parse
\* fails with TooManyCpus.
C19_LocalApicsInOrder ==
    MadtParsed =>
        LET zs == Positions(ParsedTypes, 0)
        IN  IF Len(zs) > MAX_CORES
            THEN pc = "done" /\ result = Err("TooManyCpus", NoType)
            ELSE /\ result.res # "Err"
                 /\ ret.madt.some
                 /\ ret.madt.v.num_apics = Len(zs)
                 /\ \A j \in 1..Len(zs) :
                        ret.madt.v.apics[j] =
                            [acpi_processor_uid |-> zs[j],
                             apic_id |-> 16 + zs[j], flags |-> 1]

\* A payload with a record of another type before a LocalApic has been parsed
C19_Witness ==
    /\ MadtParsed
    /\ ParsedTypes = <<1, 0>>
    /\ ret.madt.v.num_apics = 1
    /\ ret.madt.v.apics[1].acpi_processor_uid = 2

\* A payload with more LocalApics than the array holds has been rejected
C19_WitnessTooMany ==
    /\ MadtParsed
    /\ Len(Positions(ParsedTypes, 0)) > MAX_CORES
    /\ result.err = "TooManyCpus"

\* C20: the Madt holds the type-9 records too: their number, each with its
\* reserved, x2apic_id, flags and uid fields, and more of them than the array
\* holds is an error.
C20_LocalX2ApicsRecorded ==
    (MadtParsed /\ Len(Positions(ParsedTypes, 0)) <= MAX_CORES) =>
        LET ns == Positions(ParsedTypes, 9)
        IN  IF Len(ns) > MAX_CORES
            THEN pc = "done" /\ result.res = "Err"
            ELSE /\ ret.madt.some
                 /\ ret.madt.v.num_x2apics = Len(ns)
                 /\ \A j \in 1..Len(ns) :
                        ret.madt.v.x2apics[j] =
                            [reserved |-> 0, x2apic_id |-> 32 + ns[j],
                             flags |-> 1, acpi_processor_uid |-> ns[j]]

\* What holds of the type-9 records: they are parsed and left out
C20_LocalX2ApicsLeftOut ==
    (MadtParsed /\ ret.madt.some) =>
        /\ ret.madt.v.num_x2apics = 0
        /\ \A j \in 1..MAX_CORES : ret.madt.v.x2apics[j] = LocalApic_default

\* The records from offset i on tile the payload p exactly, each with a
\* length of at least 2 and, for the types 0 and 9, of its structure
RECURSIVE WellShapedFrom(_, _)
WellShapedFrom(p, i) ==
    IF i = Len(p) THEN TRUE
    ELSE IF i + 2 > Len(p) THEN FALSE
    ELSE LET t == p[i + 1]
             l == p[i + 2]
         IN  /\ l >= 2
             /\ t = 0 => l - 2 = 6
             /\ t = 9 => l - 2 = 14
             /\ i + l <= Len(p)
             /\ WellShapedFrom(p, i + l)

WellShaped(p) == Len(p) >= 8 /\ WellShapedFrom(p, 8)

\* The parse as Madt::from_addr does it in one go
T_MadtStepsAreFromAddr ==
    pc = "done" =>
        result = Madt_from_addr(mem, 0, Len(mem), program = "bootloader")

\* C21 as claimed: every malformed MADT payload is rejected with
\* LengthMismatch(Madt), and nothing of it is returned.
C21_MalformedIsLengthMismatch ==
    (pc = "done" /\ ~WellShaped(mem)) =>
        result = Err("LengthMismatch", TableType("Madt"))

\* C21, amended: every malformed MADT payload is rejected and nothing of it
\* is returned; the error is LengthMismatch(Madt), unless the boot loader has
\* come to more LocalApics than its array holds before the malformed record,
\* which is TooManyCpus.
C21_MalformedIsRejected ==
    (pc = "done" /\ ~WellShaped(mem)) =>
        \/ result = Err("LengthMismatch", TableType("Madt"))
        \/ /\ result = Err("TooManyCpus", NoType)
           /\ program = "bootloader"
           /\ ret.madt.v.num_apics = MAX_CORES

\* A record that runs past the end of the payload, behind a record that was
\* parsed, has been rejected
C21_Witness ==
    /\ pc = "done"
    /\ ~WellShaped(mem)
    /\ Len(steps) = 2
    /\ slice.len > 0
    /\ result = Err("LengthMismatch", TableType("Madt"))

\* A well-formed payload is accepted
C21_WitnessAccepted == pc = "done" /\ WellShaped(mem) /\ result.res = "Ok" /\ Len(steps) = 3

\* A pass that has not failed has taken the two bytes of a sub-header at least
PassConsumes ==
    (pc = "madt_loop" /\ pc' = "madt_loop") => slice'.len <= slice.len - 2

\* C29: the parse of a MADT payload ends: a pass of the loop fails or takes
\* at least the two bytes of the sub-header, a record of unknown type and
\* length 2 included, there are never more passes than half the bytes of the
\* payload, and the parse is never stuck before it has returned.
C29_MadtParseEnds ==
    /\ [](/\ 2 * Len(steps) <= created.len
          /\ pc # "done" => ENABLED NextMadt)
    /\ [][PassConsumes]_vars

\* Two records of unknown type and length 2 have been passed, and the parse
\* has returned
C29_Witness ==
    /\ pc = "done"
    /\ result.res = "Ok"
    /\ mem = FixedFields \o <<1, 2, 1, 2>>
    /\ Len(steps) = 2

\* The bytes an SPCR needs: interface type, 3 reserved bytes, 12-byte Gas
Whole(payload) == Len(payload) >= Len(Payload(SpcrDesc(0, 0, 0)))

HasLine(payload) == Len(payload) >= Len(SpcrPayload(SpcrDesc(0, 0, 0), 0, 1))

\* C22 as claimed: an SPCR whose parity is not "no parity" or whose stop bits
\* are not "one stop bit" is rejected with an error
C22_ParityAndStopBitsChecked ==
    (pc = "done" /\ HasLine(mem) /\ ~LegalLine(mem)) => result.res = "Err"

\* C22: an SPCR shorter than interface type + 3 reserved bytes + 12-byte Gas
\* is rejected with LengthMismatch(Spcr); any other is accepted, with the
\* interface type of its first byte and the Gas of its bytes 4..15, whatever
\* bytes follow the Gas
C22_OnlyShortSpcrIsRejected ==
    pc = "done" =>
        IF Whole(mem)
        THEN result = Ok([interface_type |-> SerialInterface_from(mem[1]),
                          address |-> Gas_from(SubSeq(mem, 5, 16))])
        ELSE result = Err("LengthMismatch", TableType("Spcr"))

\* An SPCR with odd parity and two stop bits has been accepted
C22_Witness ==
    /\ pc = "done"
    /\ HasLine(mem)
    /\ ParityOf(mem) = 1
    /\ StopBitsOf(mem) = 2
    /\ result.res = "Ok"

\* An SPCR cut short inside its Gas has been rejected
C22_WitnessShort ==
    /\ pc = "done"
    /\ Len(mem) = 15
    /\ result = Err("LengthMismatch", TableType("Spcr"))

\* The bytes of a space on the bus
Store(b, space) == IF space = "Io" THEN b.io ELSE b.memory

GasCalled == call.op \in {"Gas::write", "Gas::read"}

\* The register a call is for: the base plus idx registers of width / 8 bytes
RegisterAddr(i) == gas.addr + i * (gas.register_width \div 8)

\* The error of the call before is the first of Gas::addr's checks that the
\* device and the index fail
ChecksInOrder ==
    GasCalled =>
        IF gas.space = "Unimplemented" THEN call.err = "TypeUnimplemented"
        ELSE IF gas.register_width = 0 THEN call.err = "WidthZero"
        ELSE IF gas.register_width % 8 # 0 THEN call.err = "WidthNotMod8"
        ELSE IF gas.register_offset # 0 THEN call.err = "OffsetNonZero"
        ELSE IF RegisterAddr(call.idx) > U64Max
        THEN call.err = "AddressOverflow"
        ELSE call.err \in {"-", "InvalidAccessSize"}

\* A call that fails leaves the bus alone; a write that succeeds stores the
\* low bytes of the value, as many as the access size has, at the register,
\* and a read that succeeds returns the bytes that are there
AccessAtRegister ==
    /\ call'.res # "Ok" => bus' = bus
    /\ (call'.op = "Gas::write" /\ call'.res = "Ok") =>
            /\ Store(bus', gas.space) =
                    write_bytes(Store(bus, gas.space),
                        RegisterAddr(call'.idx),
                        truncate(call'.val, AccessBytes(gas.access_size)))
            /\ \A space \in {"Memory", "Io"} \ {gas.space} :
                    Store(bus', space) = Store(bus, space)
    /\ (call'.op = "Gas::read" /\ call'.res = "Ok") =>
            call'.val = zero_extend(read_unaligned(Store(bus, gas.space),
                            RegisterAddr(call'.idx),
                            AccessBytes(gas.access_size)))

\* C23: Gas::addr fails with WidthZero for a register width of 0, else with
\* WidthNotMod8 for a width that is no multiple of 8, else with OffsetNonZero
\* for a register offset other than 0; otherwise the access is at base +
\* idx * (width / 8) with the device's access size, and a sum that does not
\* fit is AddressOverflow, never a wrapped address; an Unimplemented device
\* is TypeUnimplemented; no failure touches the device
C23_AddrChecksThenAccess ==
    /\ []ChecksInOrder
    /\ [][AccessAtRegister]_vars

\* A register whose address does not fit has been refused
C23_Witness ==
    /\ call.op = "Gas::write"
    /\ call.err = "AddressOverflow"
    /\ gas.addr = U64Max
    /\ call.idx = 1

\* A register of width 0 and offset 1 has been refused for its width
C23_WitnessOrder ==
    /\ GasCalled
    /\ gas.register_width = 0
    /\ gas.register_offset = 1
    /\ call.err = "WidthZero"

\* The second 32-bit register of a device at 3 has been written
C23_WitnessWritten ==
    /\ call.op = "Gas::write"
    /\ call.res = "Ok"
    /\ call.idx = 1
    /\ gas.addr = 3
    /\ gas.register_width = 32

\* Gas::addr has a register for the call before
Addressed == GasCalled /\ Gas_addr(gas, call.idx).res = "Ok"

\* C24 as claimed: Byte, Word, Dword and Qword accesses succeed for Memory
\* and for Io
C24_EverySizeInEitherSpace ==
    (Addressed /\ gas.access_size \in {"Byte", "Word", "Dword", "Qword"}) =>
        call.res = "Ok"

SizesDispatched ==
    Addressed =>
        CASE gas.access_size \in {"Byte", "Word", "Dword"} -> call.res = "Ok"
          [] gas.access_size = "Qword" ->
                IF gas.space = "Memory" THEN call.res = "Ok"
                ELSE call.err = "InvalidAccessSize"
          [] OTHER -> call.err = "InvalidAccessSize"

InvalidSizeTouchesNothing ==
    call'.err = "InvalidAccessSize" => bus' = bus

\* C24: Byte, Word and Dword accesses succeed for Memory and for Io, a Qword
\* access succeeds for Memory and is InvalidAccessSize for Io, and Undefined
\* and Unspecified are InvalidAccessSize; an InvalidAccessSize touches no
\* device
C24_SizesEachSpaceTakes ==
    /\ []SizesDispatched
    /\ [][InvalidSizeTouchesNothing]_vars

\* A Qword write to an I/O port has been refused
C24_Witness ==
    /\ call.op = "Gas::write"
    /\ Addressed
    /\ gas.space = "Io"
    /\ gas.access_size = "Qword"
    /\ call.err = "InvalidAccessSize"

\* A Qword read of memory has succeeded
C24_WitnessMemory ==
    /\ call.op = "Gas::read"
    /\ Addressed
    /\ gas.space = "Memory"
    /\ gas.access_size = "Qword"
    /\ call.res = "Ok"

\* C25 as claimed: once a system table has been registered and once a
\* console has been initialised, a later register or Serial::init leaves the
\* stored value unchanged
FirstWriterWins ==
    /\ EFI_SYSTEM_TABLE # null_mut => EFI_SYSTEM_TABLE' = EFI_SYSTEM_TABLE
    /\ SERIAL_DEVICE.some => SERIAL_DEVICE' = SERIAL_DEVICE

C25_BothFirstWriterWins == [][FirstWriterWins]_vars

FirstTableLastConsole ==
    /\ EFI_SYSTEM_TABLE # null_mut => EFI_SYSTEM_TABLE' = EFI_SYSTEM_TABLE
    /\ (call'.op = "Serial::init" /\ call'.res = "Ok") =>
            SERIAL_DEVICE' = Some([device |->
                coerce(SerialInterface_from(0), call'.device)])
    /\ (call'.op = "Serial::init" /\ call'.res # "Ok") =>
            SERIAL_DEVICE' = SERIAL_DEVICE
    /\ call'.op = "register" => SERIAL_DEVICE' = SERIAL_DEVICE

\* C25: the system-table pointer is first-writer-wins, a registered table is
\* never replaced; the console is last-writer-wins, every Serial::init that
\* succeeds stores its device, and one that fails leaves the stored one
C25_TableFirstConsoleLast == [][FirstTableLastConsole]_vars

\* A second register has left the first table in place
C25_Witness ==
    /\ call.op = "register"
    /\ call.ptr = 2
    /\ EFI_SYSTEM_TABLE = 1
    /\ SERIAL_DEVICE.some

\* A second Serial::init has put a console in memory in the place of one on
\* an I/O port
C25_WitnessConsole ==
    /\ call.op = "Serial::init"
    /\ call.res = "Ok"
    /\ call.last.some
    /\ call.last.v.device.space = "Io"
    /\ SERIAL_DEVICE.v.device.space = "Memory"

\* C26: insert and remove called with a range whose start is above its end
\* fail with Error::InvalidRange and leave the RangeSet unchanged
C26_InvertedRangeIsInvalidRange ==
    (call.op \in {"insert", "remove"} /\ call.range.start > call.range.end) =>
        /\ call.res = "InvalidRange"
        /\ self = before

\* What holds of the code: the set is unchanged, whatever the error is named
T_InvertedRangeChangesNothing ==
    (call.op \in {"insert", "remove"} /\ call.range.start > call.range.end) =>
        /\ call.res = "InvalidIndex"
        /\ self = before

\* The addresses a successful allocation hands out
HandedOut ==
    IF call.op \in {"allocate", "allocate_prefer"} /\ call.res = "Ok"
    THEN AddrsOf(Range(call.val, call.val + call.size - 1))
    ELSE {}

\* C27: no memory is handed out twice or invented.  Call by call: what an
\* allocation hands out was in the set and is in it no more, so that no later
\* allocation can hand it out again unless it is inserted again, and the set
\* covers nothing after a call that it did not cover before, but the range
\* of an insert
C27_NothingHandedTwiceOrInvented ==
    /\ HandedOut \subseteq Covered(before)
    /\ HandedOut \cap Covered(self) = {}
    /\ Covered(self) \subseteq
            Covered(before) \cup
                (IF call.op = "insert" THEN AddrsOf(call.range) ELSE {})

\* What holds of the code: nothing is handed out that was not in the set or
\* that stays in it
T_HandedOutLeavesTheSet ==
    /\ HandedOut \subseteq Covered(before)
    /\ HandedOut \cap Covered(self) = {}

\* C28: a remove or an allocate_prefer that fails with OutOfEntries, a split
\* being needed while every entry is in use, leaves the RangeSet exactly as
\* it was before the call
C28_OutOfEntriesChangesNothing ==
    (/\ call.op \in {"remove", "allocate", "allocate_prefer"}
     /\ call.res = "OutOfEntries") =>
        entries(self) = entries(before)

\* The firmware's call has returned the status code call.raw
Returned == call.op = "get_memory_map"

\* C30: the conversion of a raw status into an EfiStatus is total and
\* faithful: it returns Success, Warning or Error and never reaches its
\* unreachable arm, 0 is Success, a raw value with the high bit set is an
\* Error, and so a memory-map call that failed is Error::MemoryMap
C30_StatusIsTotalAndFaithful ==
    Returned =>
        /\ call.res \in {"Success", "Warning", "Error"}
        /\ call.raw = 0 => call.res = "Success"
        /\ call.raw > WarningMax => call.res = "Error"
        /\ call.raw # 0 => efi.res = "Err" /\ efi.err = "MemoryMap"

\* What holds of the code: 0 is Success, and a status that is converted at
\* all and is not Success is Error::MemoryMap
T_ZeroIsSuccess ==
    Returned =>
        /\ call.raw = 0 => call.res = "Success" /\ efi = Running
        /\ call.res \in {"Warning", "Error"} =>
                efi.res = "Err" /\ efi.err = "MemoryMap"

\* No status at all is converted to an Error
T_NoStatusIsAnError == Returned => call.res # "Error"

====
